---- MODULE Spec2Model ----
(***************************************************************************)
(* IPMCC Commander: the event horizon (event_0dte_service.py), the unified *)
(* scanner endpoints (scanner_router.py), the position modeler             *)
(* (greeks_engine.py), the TTL caches (cache_service.py and                *)
(* market_data_service.py), the 0-DTE endpoints (zero_dte.py), the         *)
(* management signals (validation_engine.py), the positions and cycles     *)
(* routers, and the rate limit of the Schwab client (schwab_service.py).   *)
(*                                                                         *)
(* Conventions.  A calendar date is the number of days since 2026-03-10;   *)
(* BadDate stands for a string that strptime("%Y-%m-%d") rejects.  Float   *)
(* request fields are carried as scaled integers: volume_delta in tenths.  *)
(* Python's None is the string "None" where the field is otherwise a       *)
(* string, and a record with none |-> TRUE where it is otherwise a list.   *)
(***************************************************************************)
EXTENDS Integers, Sequences, FiniteSets, TLC

VARIABLES
    today,            \* date.today()
    blackout_dates,   \* Event0DTEService.blackout_dates
    response,         \* the response of the request served last, until taken
    aliased,          \* a caller holds the list object that is blackout_dates
    clock,            \* time.time(), in seconds
    cache,            \* CacheService._cache: cache key -> CacheEntry
    callers,          \* the coroutines running a cached Schwab endpoint
    minutes,          \* minute of the day, now.hour * 60 + now.minute
    log,              \* what the request served last has logged
    positions,        \* the rows of table positions, by id
    cycles,           \* the rows of table short_call_cycles, by id
    sessions,         \* the requests of the two routers, each in a session
    wall,             \* datetime.now(), in seconds
    simple_cache,     \* market_data_service.CacheService._cache
    mono,             \* time.time() of the Schwab client, in tenths
    request_times,    \* SchwabService._request_times
    sent,             \* the times at which a request went out to the API
    workers           \* the coroutines inside SchwabService._request

routerVars == <<today, blackout_dates, response, aliased>>
cacheVars == <<clock, cache, callers>>
zeroDteVars == <<minutes, log>>
dbVars == <<positions, cycles, sessions>>
simpleCacheVars == <<wall, simple_cache>>
schwabVars == <<mono, request_times, sent, workers>>
serviceVars == <<dbVars, simpleCacheVars, schwabVars>>
vars == <<today, blackout_dates, response, aliased, clock, cache, callers,
          minutes, log, positions, cycles, sessions, wall, simple_cache,
          mono, request_times, sent, workers>>

----------------------------------------------------------------------------
(* Bounds of the model *)

MaxDay == 9            \* the clock runs over days 0..MaxDay
MaxBlackout == 2       \* longest list a caller posts to /events/blackout
NumCallers == 2        \* concurrent requests to a cached endpoint
MaxClock == 60         \* the cache clock runs over 0..MaxClock seconds
ClockStep == 15        \* seconds between two observations of the clock

BadDate == -999

----------------------------------------------------------------------------
(* Small helpers *)

Max(a, b) == IF a >= b THEN a ELSE b
Min(a, b) == IF a <= b THEN a ELSE b
Abs(x) == IF x < 0 THEN -x ELSE x

\* Python's round() of the rational n/d (d > 0): nearest, ties to even
RoundHalfEven(n, d) ==
    LET q == n \div d
        r == n % d
    IN  IF 2 * r > d \/ (2 * r = d /\ q % 2 = 1) THEN q + 1 ELSE q

----------------------------------------------------------------------------
(* event_0dte_service.py *)

\* FOMC_DATES: 2026-03-18 and 2026-04-29 (the meetings around day 0)
FOMC_DATES == <<8, 50>>

\* BLACKOUT_DATES: 2026-02-14, 2026-03-07, 2026-03-12
BLACKOUT_DATES ==
    << [date |-> -24, event |-> "CPI Release", impact |-> "high"],
       [date |-> -3,  event |-> "NFP Jobs Report", impact |-> "high"],
       [date |-> 2,   event |-> "CPI Release", impact |-> "high"] >>

BLOCK_THRESHOLD == 2
HIGH_RISK_THRESHOLD == 5
CAUTION_THRESHOLD == 10

\* datetime.strptime(s, "%Y-%m-%d").date(): ValueError on a malformed string
ParseDate(s) == IF s = BadDate THEN [ok |-> FALSE, day |-> 0]
                ELSE [ok |-> TRUE, day |-> s]

\* the penalty and the warning of one FOMC date (lines 110-118); a warning
\* keeps the event's name, its days and the wording that tells the texts apart
FomcPenalty(days_away) ==
    IF days_away <= BLOCK_THRESHOLD THEN 50
    ELSE IF days_away <= HIGH_RISK_THRESHOLD THEN 25
    ELSE 10

FomcWarning(days_away) ==
    [source |-> "FOMC", days |-> days_away,
     text |-> IF days_away <= BLOCK_THRESHOLD THEN "NO 0-DTE TRADES"
              ELSE IF days_away <= HIGH_RISK_THRESHOLD THEN "HIGH RISK"
              ELSE "approaching in"]

\* the penalty and the warning of one blackout item (lines 141-149)
BlackoutPenalty(days_away, item_impact) ==
    IF days_away <= BLOCK_THRESHOLD /\ item_impact = "high" THEN 50
    ELSE IF days_away <= HIGH_RISK_THRESHOLD THEN 20
    ELSE 5

BlackoutWarning(days_away, item) ==
    [source |-> item.event, days |-> days_away,
     text |-> IF days_away <= BLOCK_THRESHOLD /\ item.impact = "high"
                  THEN "NO 0-DTE TRADES"
              ELSE IF days_away <= HIGH_RISK_THRESHOLD THEN "in days"
              ELSE "approaching"]

\* the loop over FOMC_DATES (lines 95-121); acc = events, warnings, adjustment
RECURSIVE FomcLoop(_, _, _)
FomcLoop(i, now, acc) ==
    IF i > Len(FOMC_DATES) THEN acc
    ELSE LET p == ParseDate(FOMC_DATES[i])
             days_away == p.day - now
         IN  IF p.ok /\ 0 <= days_away /\ days_away <= CAUTION_THRESHOLD
             THEN FomcLoop(i + 1, now,
                    [events |-> Append(acc.events,
                        [event_type |-> "fomc", date |-> FOMC_DATES[i],
                         days_away |-> days_away,
                         impact |-> IF days_away <= HIGH_RISK_THRESHOLD
                                    THEN "high" ELSE "medium",
                         description |-> [name |-> "FOMC Meeting",
                                          days |-> days_away]]),
                     warnings |-> Append(acc.warnings, FomcWarning(days_away)),
                     macro_adjustment |->
                         acc.macro_adjustment - FomcPenalty(days_away)])
             ELSE FomcLoop(i + 1, now, acc)

\* the loop over self.blackout_dates (lines 124-152)
RECURSIVE BlackoutLoop(_, _, _, _)
BlackoutLoop(i, now, items, acc) ==
    IF i > Len(items) THEN acc
    ELSE LET item == items[i]
             p == ParseDate(item.date)
             days_away == p.day - now
         IN  IF p.ok /\ 0 <= days_away /\ days_away <= CAUTION_THRESHOLD
             THEN BlackoutLoop(i + 1, now, items,
                    [events |-> Append(acc.events,
                        [event_type |-> "blackout", date |-> item.date,
                         days_away |-> days_away,
                         impact |-> IF days_away <= BLOCK_THRESHOLD
                                    THEN "high" ELSE item.impact,
                         description |-> [name |-> item.event,
                                          days |-> days_away]]),
                     warnings |-> Append(acc.warnings,
                                         BlackoutWarning(days_away, item)),
                     macro_adjustment |->
                         acc.macro_adjustment
                             - BlackoutPenalty(days_away, item.impact)])
             ELSE BlackoutLoop(i + 1, now, items, acc)

\* events.sort(key=lambda e: e.days_away): a stable sort (line 155)
RECURSIVE InsertByDays(_, _)
InsertByDays(e, sorted) ==
    IF sorted = <<>> THEN <<e>>
    ELSE IF Head(sorted).days_away <= e.days_away
         THEN <<Head(sorted)>> \o InsertByDays(e, Tail(sorted))
         ELSE <<e>> \o sorted

\* a sort that is not applied
SortByDays_Unsorted(events) == events

RECURSIVE SortByDays(_)
SortByDays(events) ==
    IF events = <<>> THEN <<>>
    ELSE InsertByDays(events[Len(events)],
                      SortByDays(SubSeq(events, 1, Len(events) - 1)))

\* a block test that leaves out the events of today
IsBlockingEvent_NotToday(e) ==
    1 <= e.days_away /\ e.days_away <= HIGH_RISK_THRESHOLD /\ e.impact = "high"

\* the test that marks an event as a binary-event block (lines 158-168)
IsBlockingEvent(e) ==
    e.days_away <= HIGH_RISK_THRESHOLD /\ e.impact = "high"

\* a cap that is not applied
CapAdjustment_NoCap(macro_adjustment) == macro_adjustment

\* the cap of the accumulated adjustment (line 176)
CapAdjustment(macro_adjustment) == Max(-50, macro_adjustment)

\* Event0DTEService.get_event_horizon (lines 84-178)
get_event_horizon(now, items) ==
    LET acc0 == [events |-> <<>>, warnings |-> <<>>, macro_adjustment |-> 0]
        acc == BlackoutLoop(1, now, items, FomcLoop(1, now, acc0))
        events == SortByDays(acc.events)
        has_binary_event ==
            \E i \in 1..Len(events) : IsBlockingEvent(events[i])
        blocking_events == SelectSeq(events, IsBlockingEvent)
    IN  [events |-> events,
         has_binary_event |-> has_binary_event,
         event_override |->
             IF has_binary_event
             THEN [none |-> FALSE,
                   names |-> [i \in 1..Len(blocking_events) |->
                                  blocking_events[i].description]]
             ELSE [none |-> TRUE, names |-> <<>>],
         macro_adjustment |-> CapAdjustment(acc.macro_adjustment),
         warnings |-> acc.warnings]

\* a replace that keeps the stored entries
ReplaceBlackoutDates_Merge(stored, dates) == stored \o dates

\* Event0DTEService.update_blackout_dates (lines 228-230)
ReplaceBlackoutDates(stored, dates) == dates

\* Event0DTEService.remove_blackout_date (lines 221-226)
RemoveBlackoutDate(stored, date_str) ==
    SelectSeq(stored, LAMBDA d : d.date # date_str)

----------------------------------------------------------------------------
(* Inputs of the event service *)

\* the dates of the lists the service is called with: a malformed string, two
\* dates inside the lookahead window of some day, one beyond it
AnyBlackoutDays == {BadDate, 4, 9, 25}
AnyBlackoutItems ==
    [date : AnyBlackoutDays, event : {"CPI Release"}, impact : {"high", "medium"}]
AnyBlackoutLists == UNION {[1..n -> AnyBlackoutItems] : n \in 0..MaxBlackout}

BlackoutDays == {4, 9}
BlackoutImpacts == {"high", "medium"}
BlackoutItems ==
    [date : BlackoutDays, event : {"CPI Release"}, impact : BlackoutImpacts]
BlackoutLists == UNION {[1..n -> BlackoutItems] : n \in 0..MaxBlackout}

----------------------------------------------------------------------------
(* scanner_router.py: the technical analysis of a 0-DTE request *)

\* the regime of analyze_desk_signal (lines 139-161)
DeskRegime(data) ==
    IF data.net_gex < -3 /\ Abs(data.volume_delta) > 15 THEN "trend_day"
    ELSE IF data.net_gex > 4 /\ data.charm_effect = "pinning"
         THEN "mean_reversion"
    ELSE IF data.vix_change > 8 THEN "volatility_breakout"
    ELSE IF data.vanna_flow = "hostile" /\ data.charm_effect = "unpinning"
         THEN "gamma_squeeze"
    ELSE "choppy_fakeout"

\* the fakeout detection of analyze_desk_signal (lines 163-178);
\* prev_close = price - price * 0.001, compared in thousandths
DeskFakeoutRisk(data) ==
    LET price == data.current_price
        prev_close1000 == price * 1000 - price
        price_bullish == price * 1000 > prev_close1000
        flow_bullish == data.volume_delta > 5
        diverges == (price_bullish /\ ~flow_bullish)
                        \/ (~price_bullish /\ flow_bullish)
    IN  IF diverges THEN "high"
        ELSE IF data.dark_pool = "mixed" THEN "medium"
        ELSE "low"

\* the status of analyze_desk_signal (lines 180-192)
DeskStatus(regime, fakeout_risk) ==
    IF regime = "choppy_fakeout" THEN "no_trade"
    ELSE IF fakeout_risk = "high" THEN "no_trade"
    ELSE IF fakeout_risk = "medium" THEN "caution"
    ELSE "green_light"

\* direction and structure of analyze_desk_signal (lines 194-226)
DeskDirection(data, regime, status) ==
    LET price == data.current_price
        atm == RoundHalfEven(IF price # 0 THEN price ELSE 5000, 5) * 5
        zg == IF data.zero_gamma # 0 THEN data.zero_gamma ELSE atm
        none == [direction |-> "none", structure |-> "None"]
    IN  IF status = "no_trade" THEN none
        ELSE IF regime = "trend_day"
        THEN IF data.volume_delta > 0 /\ data.net_delta = "bullish"
             THEN [direction |-> "bullish", structure |-> "Bull Call Vertical"]
             ELSE IF data.volume_delta < 0 /\ data.net_delta = "bearish"
             THEN [direction |-> "bearish", structure |-> "Bear Put Vertical"]
             ELSE none
        ELSE IF regime = "mean_reversion"
        THEN IF price > zg + 15
             THEN [direction |-> "bearish", structure |-> "Put Butterfly"]
             ELSE IF price < zg - 15
             THEN [direction |-> "bullish", structure |-> "Call Butterfly"]
             ELSE [direction |-> "neutral", structure |-> "Iron Condor"]
        ELSE none

\* a clamp that forgets the floor
Clamp100_NoFloor(x) == Min(100, x)

\* max(0, min(100, x)), as written on lines 236, 365, 414 and 513
Clamp100(x) == Max(0, Min(100, x))

\* the confidence of analyze_desk_signal (lines 228-236)
DeskConfidence(data, direction, fakeout_risk) ==
    LET agrees == data.net_delta =
                      (IF direction = "bullish" THEN "bullish" ELSE "bearish")
    IN  Clamp100(50 + (IF agrees THEN 15 ELSE 0)
                    + (IF fakeout_risk = "low" THEN 10 ELSE 0)
                    - (IF fakeout_risk = "high" THEN 15 ELSE 0))

\* analyze_desk_signal (lines 133-267); the texts and price levels of the
\* result, which no decision reads, are left out
analyze_desk_signal(data) ==
    LET regime == DeskRegime(data)
        fakeout_risk == DeskFakeoutRisk(data)
        status == DeskStatus(regime, fakeout_risk)
        dir == DeskDirection(data, regime, status)
    IN  [status |-> status, regime |-> regime,
         direction |-> dir.direction, structure |-> dir.structure,
         confidence |-> DeskConfidence(data, dir.direction, fakeout_risk),
         fakeout_risk |-> fakeout_risk]

\* the sector adjustment shared by both scans (lines 406-411, 501-506)
SectorAdjustment(snapshot) ==
    IF snapshot.available /\ snapshot.sector_flow = "outflow" THEN 10 ELSE 0

\* a status override that tests the confidence before the event block
DeskFinalStatus_ConfidenceFirst(status, macro_override, final_confidence) ==
    IF final_confidence < 30 THEN "no_trade"
    ELSE IF final_confidence < 50 /\ status = "green_light" THEN "caution"
    ELSE IF final_confidence >= 50 THEN status
    ELSE IF macro_override THEN "no_trade"
    ELSE status

\* the status override of scan_0dte (lines 416-424)
DeskFinalStatus(status, macro_override, final_confidence) ==
    IF macro_override THEN "no_trade"
    ELSE IF final_confidence < 30 THEN "no_trade"
    ELSE IF final_confidence < 50 /\ status = "green_light" THEN "caution"
    ELSE status

\* the body of scan_0dte after its inputs are fetched (lines 399-461)
Scan0DTEResponse(request, event_horizon, market_snapshot) ==
    LET technical == analyze_desk_signal(request)
        macro_adjustment == event_horizon.macro_adjustment
                                - SectorAdjustment(market_snapshot)
        macro_override == event_horizon.has_binary_event
        final_confidence == Clamp100(technical.confidence + macro_adjustment)
    IN  [kind |-> "desk",
         technical |-> technical,
         status |-> DeskFinalStatus(technical.status, macro_override,
                                    final_confidence),
         final_confidence |-> final_confidence,
         macro_override |-> macro_override,
         macro |-> [has_binary_event |-> event_horizon.has_binary_event,
                    event_override |-> event_horizon.event_override,
                    macro_adjustment |-> macro_adjustment,
                    macro_status |->
                        IF macro_override THEN "high_risk"
                        ELSE IF macro_adjustment < -15 THEN "caution"
                        ELSE "clear"]]

----------------------------------------------------------------------------
(* scanner_router.py: the technical analysis of a strategy request *)

\* analyze_strategy_signal (lines 270-377); the weighted sums are compared
\* in tenths, the texts are left out
analyze_strategy_signal(data) ==
    LET iv_rank == IF data.iv_rank # 0 THEN data.iv_rank ELSE 50
        iv_rank_score == IF iv_rank >= 50 THEN Min(100, iv_rank + 20)
                         ELSE iv_rank
        premium_score == iv_rank_score
        trend_score == 50
        ipmcc10 == iv_rank_score * 5 + premium_score * 3 + 200
        s11210 == iv_rank_score * 4 + premium_score * 3 + 300
        signal ==
            IF data.strategy = "ipmcc"
            THEN IF iv_rank >= 40
                 THEN IF ipmcc10 >= 700 THEN "strong_buy"
                      ELSE IF ipmcc10 >= 550 THEN "buy"
                      ELSE "neutral"
                 ELSE "avoid"
            ELSE IF data.strategy = "112"
            THEN IF s11210 >= 650 /\ iv_rank >= 35 THEN "strong_buy"
                 ELSE IF s11210 >= 500 THEN "buy"
                 ELSE "neutral"
            ELSE IF data.strategy = "strangle"
            THEN IF iv_rank < 40 THEN "avoid"
                 ELSE IF iv_rank >= 60 THEN "strong_buy"
                 ELSE IF iv_rank >= 45 THEN "buy"
                 ELSE "neutral"
            ELSE "neutral"
        confidence == RoundHalfEven(
            iv_rank_score * 4 + premium_score * 3 + trend_score * 3, 10)
    IN  [strategy |-> data.strategy, signal |-> signal,
         confidence |-> Clamp100(confidence),
         iv_rank_score |-> iv_rank_score]

\* the VIX adjustment of scan_strategy (lines 493-499)
VixAdjustment(snapshot) ==
    IF snapshot.available /\ snapshot.vix_regime = "extreme" THEN 15
    ELSE IF snapshot.available /\ snapshot.vix_regime = "high" THEN 5
    ELSE 0

\* the earnings adjustment of scan_strategy (lines 508-510)
EarningsAdjustment(earnings_risk) ==
    IF earnings_risk = "high" THEN 20 ELSE 0

\* a signal adjustment that forgets to test for a positive signal
StrategyFinalSignal_AnySignal(signal, final_confidence) ==
    IF final_confidence < 30 THEN "strong_avoid"
    ELSE IF final_confidence < 45
         THEN IF final_confidence < 35 THEN "avoid" ELSE "neutral"
    ELSE signal

\* the signal adjustment of scan_strategy (lines 515-524)
StrategyFinalSignal(signal, final_confidence) ==
    IF final_confidence < 30 THEN "strong_avoid"
    ELSE IF final_confidence < 45 /\ signal \in {"strong_buy", "buy"}
         THEN IF final_confidence < 35 THEN "avoid" ELSE "neutral"
    ELSE signal

\* macro_override of scan_strategy (lines 517-524)
StrategyMacroOverride(signal, final_confidence) ==
    \/ final_confidence < 30
    \/ final_confidence < 45 /\ signal \in {"strong_buy", "buy"}

\* the body of scan_strategy after its inputs are fetched (lines 476-560);
\* earnings_risk is the risk_level of check_position_earnings_risk, "None"
\* when the request names no expiration date
ScanStrategyResponse(request, market_snapshot, earnings_risk) ==
    LET technical == analyze_strategy_signal(request)
        macro_adjustment == 0 - VixAdjustment(market_snapshot)
                              - SectorAdjustment(market_snapshot)
                              - EarningsAdjustment(earnings_risk)
        final_confidence == Clamp100(technical.confidence + macro_adjustment)
    IN  [kind |-> "strategy",
         technical |-> technical,
         signal |-> StrategyFinalSignal(technical.signal, final_confidence),
         final_confidence |-> final_confidence,
         macro_override |-> StrategyMacroOverride(technical.signal,
                                                  final_confidence),
         earnings_risk |-> earnings_risk,
         macro |-> [has_binary_event |-> FALSE,
                    event_override |-> [none |-> TRUE, names |-> <<>>],
                    macro_adjustment |-> macro_adjustment,
                    macro_status |->
                        IF macro_adjustment < -20 THEN "high_risk"
                        ELSE IF macro_adjustment < -10 THEN "caution"
                        ELSE "clear"]]

----------------------------------------------------------------------------
(* Inputs of the scanner router *)

\* ScanRequest fields read by analyze_desk_signal; 0 also stands for None,
\* which the code maps to 0 (net_gex or 0, volume_delta or 0, ...)
DeskRequests ==
    [current_price : {0, 5000},
     zero_gamma : {0, 4980},
     net_gex : {-4, 5},
     volume_delta : {-20, 20},
     net_delta : {"bullish", "bearish"},
     vanna_flow : {"hostile", "neutral"},
     charm_effect : {"pinning", "unpinning"},
     dark_pool : {"none", "mixed"},
     vix_change : {0}]

StrategyRequests ==
    [strategy : {"ipmcc", "112", "strangle"},
     iv_rank : {0, 30, 44, 60}]

\* get_market_snapshot: unavailable (the call raised), or the sector flow
\* ("None" for an index, which has no sector) and the VIX regime
NoSnapshot == [available |-> FALSE, sector_flow |-> "None",
               vix_regime |-> "None"]
MarketSnapshots ==
    {NoSnapshot} \cup [available : {TRUE},
                       sector_flow : {"None", "outflow"},
                       vix_regime : {"high", "extreme"}]

EarningsRisks == {"None", "high"}

----------------------------------------------------------------------------
(* greeks_engine.py and the /ipmcc-greeks endpoint of analyze.py *)

\* A float of a result is an exact number, or a term over the attributes of
\* mibian.BS, the pricing library, which is not part of the repository.
Num(v) == [sym |-> FALSE, val |-> v]
Sym(name, args) == [sym |-> TRUE, name |-> name, args |-> args]
Sub(a, b) == IF ~a.sym /\ ~b.sym THEN Num(a.val - b.val)
             ELSE Sym("sub", <<a, b>>)
Scale(a, k) == IF ~a.sym THEN Num(a.val * k) ELSE Sym("mul", <<a, k>>)

\* GreeksEngine.risk_free_rate (line 23)
risk_free_rate == 5

\* GreeksEngine.calculate_days_to_expiry (lines 32-37)
calculate_days_to_expiry(expiration, now) == Max(0, expiration - now)

\* the inputs on which mibian.BS(...) or the use of its result raises inside
\* the try block (lines 75-101): a zero volatility leaves callPrice unset, a
\* non-positive price or strike has no logarithm
MibianRaises(stock_price, strike, volatility) ==
    volatility = 0 \/ stock_price <= 0 \/ strike <= 0

\* GreeksEngine.calculate_call_greeks (lines 39-101)
calculate_call_greeks(stock_price, strike, days_to_expiry, volatility) ==
    LET intrinsic == Max(0, stock_price - strike)
        args == <<stock_price, strike, risk_free_rate, days_to_expiry,
                  volatility>>
    IN  IF days_to_expiry <= 0
        THEN [price |-> Num(intrinsic),
              delta |-> Num(IF stock_price > strike THEN 100 ELSE 0),
              gamma |-> Num(0), theta |-> Num(0), vega |-> Num(0),
              intrinsic |-> Num(intrinsic), extrinsic |-> Num(0),
              dte |-> 0, iv |-> volatility,
              error |-> IF days_to_expiry < 0 THEN "Option has expired"
                        ELSE "None"]
        ELSE IF MibianRaises(stock_price, strike, volatility)
        THEN [error |-> "exception"]
        ELSE [price |-> Sym("callPrice", args),
              delta |-> Sym("callDelta", args),
              gamma |-> Sym("gamma", args),
              theta |-> Sym("callTheta", args),
              vega |-> Sym("vega", args),
              intrinsic |-> Num(intrinsic),
              extrinsic |-> Sym("callExtrinsic", args),
              dte |-> days_to_expiry, iv |-> volatility,
              error |-> "None"]

\* GreeksEngine.calculate_put_greeks (lines 103-163)
calculate_put_greeks(stock_price, strike, days_to_expiry, volatility) ==
    LET intrinsic == Max(0, strike - stock_price)
        args == <<stock_price, strike, risk_free_rate, days_to_expiry,
                  volatility>>
    IN  IF days_to_expiry <= 0
        THEN [price |-> Num(intrinsic),
              delta |-> Num(IF stock_price < strike THEN -100 ELSE 0),
              gamma |-> Num(0), theta |-> Num(0), vega |-> Num(0),
              intrinsic |-> Num(intrinsic), extrinsic |-> Num(0),
              dte |-> 0, iv |-> volatility,
              error |-> IF days_to_expiry < 0 THEN "Option has expired"
                        ELSE "None"]
        ELSE IF MibianRaises(stock_price, strike, volatility)
        THEN [error |-> "exception"]
        ELSE [price |-> Sym("putPrice", args),
              delta |-> Sym("putDelta", args),
              gamma |-> Sym("gamma", args),
              theta |-> Sym("putTheta", args),
              vega |-> Sym("vega", args),
              intrinsic |-> Num(intrinsic),
              extrinsic |-> Sym("putExtrinsic", args),
              dte |-> days_to_expiry, iv |-> volatility,
              error |-> "None"]

\* GreeksEngine.calculate_ipmcc_position (lines 165-251); of the metrics the
\* capital, the weekly extrinsic, the weeks to breakeven and the annual ROI
\* are kept
calculate_ipmcc_position(stock_price, long_strike, long_dte, long_iv, short_strike, short_dte, short_iv, quantity) ==
    LET long_greeks == calculate_call_greeks(stock_price, long_strike,
                                             long_dte, long_iv)
        short_greeks == calculate_call_greeks(stock_price, short_strike,
                                              short_dte, short_iv)
        capital_required == Scale(long_greeks.price, 100 * quantity)
        weekly_extrinsic == Scale(short_greeks.extrinsic, 100 * quantity)
    IN  IF long_greeks.error # "None"
        THEN [error |-> <<"Long leg error", long_greeks.error>>]
        ELSE IF short_greeks.error # "None"
        THEN [error |-> <<"Short leg error", short_greeks.error>>]
        ELSE [long |-> long_greeks,
              short |-> short_greeks,
              net |-> [delta |-> Scale(Sub(long_greeks.delta,
                                           short_greeks.delta), quantity),
                       gamma |-> Scale(Sub(long_greeks.gamma,
                                           short_greeks.gamma), quantity),
                       theta |-> Scale(Sub(long_greeks.theta,
                                           short_greeks.theta), quantity),
                       vega |-> Scale(Sub(long_greeks.vega,
                                          short_greeks.vega), quantity)],
              metrics |->
                  [capital_required |-> capital_required,
                   weekly_extrinsic |-> weekly_extrinsic,
                   weeks_to_breakeven |->
                       IF ~weekly_extrinsic.sym /\ weekly_extrinsic.val <= 0
                       THEN Sym("inf", <<>>)
                       ELSE Sym("div", <<capital_required, weekly_extrinsic>>),
                   theoretical_annual_roi |->
                       IF ~capital_required.sym /\ capital_required.val <= 0
                       THEN Num(0)
                       ELSE Sym("roi", <<weekly_extrinsic, capital_required>>)],
              error |-> <<"None">>]

\* calculate_ipmcc_greeks, POST /ipmcc-greeks (analyze.py 109-143); the
\* response keeps the request it answers
IpmccGreeksResponse(request, now) ==
    LET long_dte == calculate_days_to_expiry(request.long_expiration, now)
        short_dte == calculate_days_to_expiry(request.short_expiration, now)
        result == calculate_ipmcc_position(
                      request.stock_price, request.long_strike, long_dte,
                      request.long_iv, request.short_strike, short_dte,
                      request.short_iv, request.quantity)
    IN  IF result.error # <<"None">>
        THEN [kind |-> "http_error", status_code |-> 400,
              detail |-> result.error, request |-> request]
        ELSE [kind |-> "ipmcc", long |-> result.long, short |-> result.short,
              net |-> result.net, metrics |-> result.metrics,
              request |-> request]

\* IPMCCGreeksRequest (schemas/analysis.py 126-135): prices, strikes and
\* volatilities are positive, quantity is at least 1
IPMCCGreeksRequests ==
    [stock_price : {100},
     long_strike : {90, 100, 110},
     long_expiration : {5, 200},
     long_iv : {30},
     short_strike : {90, 100, 110},
     short_expiration : {5, 12},
     short_iv : {25},
     quantity : {1, 2}]

----------------------------------------------------------------------------
(* cache_service.py and the cached endpoints of schwab_router.py *)

\* CacheService.DEFAULT_TTLS["quotes"] (line 60)
QUOTES_TTL == 30

\* CacheEntry.__init__ (lines 21-25); the hit counter is left out
CacheEntry(value, ttl_seconds, now) ==
    [value |-> value, created_at |-> now, expires_at |-> now + ttl_seconds]

\* CacheEntry.is_expired (lines 27-28)
is_expired(entry, now) == now > entry.expires_at

NoValue == [fetched_at |-> -1]

\* CacheService.get (lines 96-123): the value returned (NoValue for None)
\* and the cache it leaves.  The body holds the lock and never suspends, so
\* it is one step; the statistics are left out.
CacheService_get(entries, cache_key, now) ==
    IF cache_key \notin DOMAIN entries
    THEN [value |-> NoValue, entries |-> entries]
    ELSE IF is_expired(entries[cache_key], now)
    THEN [value |-> NoValue,
          entries |-> [k \in DOMAIN entries \ {cache_key} |-> entries[k]]]
    ELSE [value |-> entries[cache_key].value, entries |-> entries]

\* CacheService.set (lines 125-151), below max_entries
CacheService_set(entries, cache_key, value, ttl, now) ==
    [k \in DOMAIN entries \cup {cache_key} |->
        IF k = cache_key THEN CacheEntry(value, ttl, now) ELSE entries[k]]

CacheKeys == {"AAPL", "AAPL,MSFT"}
Callers == 1..NumCallers

IdleCaller == [pc |-> "idle", key |-> "None", data |-> NoValue,
               source |-> "None"]

----------------------------------------------------------------------------
(* routers/zero_dte.py: GEX levels and key levels *)

\* Exposures (net_gex, call_gex, put_gex) are in ten-thousandths, the
\* precision the levels are rounded to; strikes and spot are whole dollars.

\* the level type of a strike (calculate_gex_from_chain, lines 233-241)
LevelType(call_gex, put_gex) ==
    IF call_gex > 3000 THEN "call_wall"
    ELSE IF put_gex < -3000 THEN "put_wall"
    ELSE IF Abs(call_gex + put_gex) < 1000 THEN "gamma_flip"
    ELSE "neutral"

\* GEXLevel (lines 21-30); the volumes are left out
GEXLevel(strike, call_gex, put_gex, call_oi, put_oi, level_type) ==
    [strike |-> strike, net_gex |-> call_gex + put_gex,
     call_gex |-> call_gex, put_gex |-> put_gex,
     call_oi |-> call_oi, put_oi |-> put_oi, level_type |-> level_type]

\* max(seq, key=...) and min(seq, key=...) of Python, from the sequence of
\* the keys: the place of the first element whose key is maximal (minimal)
FirstMax(keys) ==
    CHOOSE i \in 1..Len(keys) :
        /\ \A j \in 1..Len(keys) : keys[j] <= keys[i]
        /\ \A j \in 1..(i - 1) : keys[j] < keys[i]

FirstMin(keys) ==
    CHOOSE i \in 1..Len(keys) :
        /\ \A j \in 1..Len(keys) : keys[j] >= keys[i]
        /\ \A j \in 1..(i - 1) : keys[j] > keys[i]

\* a filter that keeps the strike at spot
AboveSpot_Inclusive(gex_levels, spot_price) ==
    SelectSeq(gex_levels, LAMBDA g : g.strike >= spot_price)

\* above_spot (line 272) and below_spot (line 276)
AboveSpot(gex_levels, spot_price) ==
    SelectSeq(gex_levels, LAMBDA g : g.strike > spot_price)

\* a filter that keeps the strike at spot
BelowSpot_Inclusive(gex_levels, spot_price) ==
    SelectSeq(gex_levels, LAMBDA g : g.strike <= spot_price)

BelowSpot(gex_levels, spot_price) ==
    SelectSeq(gex_levels, LAMBDA g : g.strike < spot_price)

\* find_key_levels (lines 259-292)
find_key_levels(gex_levels, spot_price) ==
    IF gex_levels = <<>>
    THEN [call_wall |-> spot_price + 50, put_wall |-> spot_price - 50,
          gamma_flip |-> spot_price, max_pain |-> spot_price,
          zero_gamma |-> spot_price]
    ELSE LET above_spot == AboveSpot(gex_levels, spot_price)
             below_spot == BelowSpot(gex_levels, spot_price)
             flip == SelectSeq(gex_levels,
                               LAMBDA g : g.level_type = "gamma_flip")
             gamma_flip ==
                 IF flip # <<>>
                 THEN flip[FirstMin([i \in 1..Len(flip) |->
                          Abs(flip[i].strike - spot_price)])].strike
                 ELSE spot_price
         IN  [call_wall |->
                  IF above_spot # <<>>
                  THEN above_spot[FirstMax([i \in 1..Len(above_spot) |->
                           above_spot[i].call_gex])].strike
                  ELSE spot_price + 50,
              put_wall |->
                  IF below_spot # <<>>
                  THEN below_spot[FirstMin([i \in 1..Len(below_spot) |->
                           below_spot[i].put_gex])].strike
                  ELSE spot_price - 50,
              gamma_flip |-> gamma_flip,
              max_pain |->
                  gex_levels[FirstMax([i \in 1..Len(gex_levels) |->
                      gex_levels[i].call_oi + gex_levels[i].put_oi])].strike,
              zero_gamma |-> gamma_flip]

\* GEX profiles as the two producers build them, in ascending strike order:
\* each strike of the grid is absent or carries one of a few exposures
ProfileStrikes == <<95, 100, 105, 110>>
NoLevel == [strike |-> -1]
LevelsAt(strike) ==
    {NoLevel} \cup
    {GEXLevel(strike, c, q, oi, 0, LevelType(c, q)) :
         c \in {0, 5000}, q \in {0, -5000}, oi \in {0, 100}}
GEXProfiles ==
    {SelectSeq(<<a, b, c, d>>, LAMBDA g : g # NoLevel) :
         a \in LevelsAt(ProfileStrikes[1]), b \in LevelsAt(ProfileStrikes[2]),
         c \in LevelsAt(ProfileStrikes[3]), d \in LevelsAt(ProfileStrikes[4])}
SpotPrices == {100, 103}

\* the profile with net exposures 90: +0.5, 95: +2.0, 100: 0.0, 105: -1.8,
\* 110: -0.4; a level's net exposure is all call or all put exposure, or
\* both sides carry 0.4 more
ExampleNet == <<[strike |-> 90, net |-> 5000], [strike |-> 95, net |-> 20000],
               [strike |-> 100, net |-> 0], [strike |-> 105, net |-> -18000],
               [strike |-> 110, net |-> -4000]>>
ExampleLevel(i, both) ==
    LET call_gex == Max(ExampleNet[i].net, 0) + both
        put_gex == Min(ExampleNet[i].net, 0) - both
    IN  GEXLevel(ExampleNet[i].strike, call_gex, put_gex, 0, 0,
                 LevelType(call_gex, put_gex))
ExampleProfiles ==
    {[i \in 1..Len(ExampleNet) |-> ExampleLevel(i, both[i])] :
         both \in [1..Len(ExampleNet) -> {0, 4000}]}
ExampleSpot == 100

----------------------------------------------------------------------------
(* routers/zero_dte.py: VIX data, trading windows and kill switch *)

\* Quotes are in thousandths; a value the endpoints round to two decimals is
\* in hundredths.
Round2(x) == RoundHalfEven(x, 10)

\* get_vix_regime (lines 86-95), vix in thousandths
get_vix_regime(vix) ==
    IF vix < 15000 THEN "low"
    ELSE IF vix < 20000 THEN "elevated"
    ELSE IF vix < 30000 THEN "high"
    ELSE "extreme"

\* None in the place of a number
None == -999999

\* the term structure of get_vix_data (lines 464-472)
TermStructure(vix, vix1d) ==
    IF vix1d # None /\ vix1d # 0 /\ vix > 0
    THEN IF vix1d * 100 < vix * 95 THEN "contango"
         ELSE IF vix1d * 100 > vix * 105 THEN "backwardation"
         ELSE "flat"
    ELSE "unknown"

\* round(x, 2) if x else None
Round2OrNone(x) == IF x # None /\ x # 0 THEN Round2(x) ELSE None

\* get_vix_data (lines 437-487) for the quotes Schwab returns; the $VIX quote
\* is [vix], the $VIX1D quote [vix1d, vix1d_change], both None when its
\* request fails or the symbol is missing
get_vix_data(vix_quote, vix1d_quote) ==
    [vix |-> Round2(vix_quote.vix),
     vix1d |-> Round2OrNone(vix1d_quote.vix1d),
     vix1d_change |-> Round2OrNone(vix1d_quote.vix1d_change),
     term_structure |-> TermStructure(vix_quote.vix, vix1d_quote.vix1d),
     regime |-> get_vix_regime(vix_quote.vix)]

\* the vix_data of get_kill_switch_status when get_vix_data raises (line 540)
DefaultVixData ==
    [vix |-> 1500, vix1d |-> None, vix1d_change |-> None,
     term_structure |-> "unknown", regime |-> "low"]

\* a window list with a gap after the opening range
windows_Gap ==
    << [name |-> "Pre-Market", start |-> 480, end |-> 570, type |-> "prep"],
       [name |-> "Opening Range", start |-> 570, end |-> 580, type |-> "avoid"],
       [name |-> "Optimal Entry", start |-> 585, end |-> 615,
        type |-> "optimal"],
       [name |-> "Mid-Day", start |-> 615, end |-> 840, type |-> "manage"],
       [name |-> "Power Hour", start |-> 840, end |-> 900, type |-> "caution"],
       [name |-> "Danger Zone", start |-> 900, end |-> 950, type |-> "danger"],
       [name |-> "Final Minutes", start |-> 950, end |-> 960,
        type |-> "lethal"] >>

\* windows of get_trading_windows (lines 500-508)
windows ==
    << [name |-> "Pre-Market", start |-> 480, end |-> 570, type |-> "prep"],
       [name |-> "Opening Range", start |-> 570, end |-> 585, type |-> "avoid"],
       [name |-> "Optimal Entry", start |-> 585, end |-> 615,
        type |-> "optimal"],
       [name |-> "Mid-Day", start |-> 615, end |-> 840, type |-> "manage"],
       [name |-> "Power Hour", start |-> 840, end |-> 900, type |-> "caution"],
       [name |-> "Danger Zone", start |-> 900, end |-> 950, type |-> "danger"],
       [name |-> "Final Minutes", start |-> 950, end |-> 960,
        type |-> "lethal"] >>

NoWindow == [name |-> "None", start |-> 0, end |-> 0, type |-> "None"]

\* the loop that finds the current window (lines 510-514): the first window
\* that holds the minute, None if there is none
CurrentWindow(m) ==
    LET hits == {i \in 1..Len(windows) :
                     windows[i].start <= m /\ m < windows[i].end}
    IN  IF hits = {} THEN NoWindow
        ELSE windows[CHOOSE i \in hits : \A j \in hits : i <= j]

exit_time == 950

\* time_to_close (lines 516-521)
TimeToClose(m) ==
    IF m < exit_time
    THEN LET remaining == exit_time - m
         IN  IF remaining >= 60
             THEN [text |-> "h m", h |-> remaining \div 60,
                   m |-> remaining % 60]
             ELSE [text |-> "m", h |-> 0, m |-> remaining]
    ELSE [text |-> "PAST EXIT", h |-> 0, m |-> 0]

\* the body of get_trading_windows (lines 491-531) at minute m
TradingWindows(m) ==
    [current_window |-> CurrentWindow(m),
     time_to_close |-> TimeToClose(m),
     market_open |-> (570 <= m /\ m < 960)]

\* the four rules of get_kill_switch_status, each from the threat and the
\* alerts so far to the new ones
Vix1dRule(acc, v1d) ==
    IF v1d # None /\ v1d > 1000
    THEN [threat |-> "critical",
          alerts |-> Append(acc.alerts,
              [type |-> "vix_spike", severity |-> "critical", value |-> v1d])]
    ELSE IF v1d # None /\ v1d > 500
    THEN [threat |-> "elevated",
          alerts |-> Append(acc.alerts,
              [type |-> "vix_elevated", severity |-> "warning",
               value |-> v1d])]
    ELSE acc

\* a time rule that sets the level of the danger window unconditionally
TimeRule_Overwrites(acc, trading) ==
    LET window == trading.current_window
    IN  IF window = NoWindow THEN acc
        ELSE IF window.type = "lethal"
        THEN [threat |-> "critical",
              alerts |-> Append(acc.alerts,
                  [type |-> "time", severity |-> "critical",
                   value |-> [text |-> "EXIT NOW", h |-> 0, m |-> 0]])]
        ELSE IF window.type = "danger"
        THEN [threat |-> "elevated",
              alerts |-> Append(acc.alerts,
                  [type |-> "time", severity |-> "warning",
                   value |-> trading.time_to_close])]
        ELSE acc

\* lines 557-566
TimeRule(acc, trading) ==
    LET window == trading.current_window
    IN  IF window = NoWindow THEN acc
        ELSE IF window.type = "lethal"
        THEN [threat |-> "critical",
              alerts |-> Append(acc.alerts,
                  [type |-> "time", severity |-> "critical",
                   value |-> [text |-> "EXIT NOW", h |-> 0, m |-> 0]])]
        ELSE IF window.type = "danger"
        THEN [threat |-> IF acc.threat = "normal" THEN "elevated"
                         ELSE acc.threat,
              alerts |-> Append(acc.alerts,
                  [type |-> "time", severity |-> "warning",
                   value |-> trading.time_to_close])]
        ELSE acc

\* lines 568-571
RegimeRule(acc, vix_data) ==
    IF vix_data.regime = "extreme"
    THEN [threat |-> "critical",
          alerts |-> Append(acc.alerts,
              [type |-> "vix", severity |-> "critical",
               value |-> vix_data.vix])]
    ELSE acc

\* lines 573-577
TermRule(acc, vix_data) ==
    IF vix_data.term_structure = "backwardation"
    THEN [threat |-> IF acc.threat = "normal" THEN "elevated" ELSE acc.threat,
          alerts |-> Append(acc.alerts,
              [type |-> "term", severity |-> "warning",
               value |-> [text |-> "VIX backwardation", h |-> 0, m |-> 0]])]
    ELSE acc

\* get_kill_switch_status (lines 534-584) for the vix_data it obtained, at
\* minute m; the response keeps the vix_data it was computed from
KillSwitchResponse(vix_data, m) ==
    LET trading == TradingWindows(m)
        acc0 == [threat |-> "normal", alerts |-> <<>>]
        acc == TermRule(RegimeRule(TimeRule(
                   Vix1dRule(acc0, vix_data.vix1d_change), trading),
                   vix_data), vix_data)
    IN  [kind |-> "kill_switch",
         threat_level |-> acc.threat,
         alerts |-> acc.alerts,
         kill_switch_recommended |-> (acc.threat = "critical"),
         vix_data |-> vix_data]

\* the quotes of $VIX and $VIX1D
VixQuotes == [vix : {15000, 31000}]
Vix1dQuotes ==
    {[vix1d |-> None, vix1d_change |-> None]}
        \cup [vix1d : {14000, 40000}, vix1d_change : {0, 6000, 10004, 10006}]

----------------------------------------------------------------------------
(* routers/zero_dte.py: the GEX profile of get_zero_dte_market_data *)

\* a classification whose cut points belong to the outer regimes
determine_regime_Inclusive(total_gex) ==
    IF total_gex >= 30000
    THEN [regime_type |-> "positive_gamma",
          strength |-> IF total_gex >= 60000 THEN "strong" ELSE "moderate",
          bias |-> "pin", total_gex |-> RoundHalfEven(total_gex, 100)]
    ELSE IF total_gex <= -30000
    THEN [regime_type |-> "negative_gamma",
          strength |-> IF total_gex <= -60000 THEN "strong" ELSE "moderate",
          bias |-> "trend", total_gex |-> RoundHalfEven(total_gex, 100)]
    ELSE [regime_type |-> "neutral", strength |-> "weak", bias |-> "chop",
          total_gex |-> RoundHalfEven(total_gex, 100)]

\* determine_regime (lines 98-124), total_gex in ten-thousandths
determine_regime(total_gex) ==
    IF total_gex > 30000
    THEN [regime_type |-> "positive_gamma",
          strength |-> IF total_gex > 60000 THEN "strong" ELSE "moderate",
          bias |-> "pin", total_gex |-> RoundHalfEven(total_gex, 100)]
    ELSE IF total_gex < -30000
    THEN [regime_type |-> "negative_gamma",
          strength |-> IF total_gex < -60000 THEN "strong" ELSE "moderate",
          bias |-> "trend", total_gex |-> RoundHalfEven(total_gex, 100)]
    ELSE [regime_type |-> "neutral", strength |-> "weak", bias |-> "chop",
          total_gex |-> RoundHalfEven(total_gex, 100)]

\* one level of generate_estimated_gex (lines 137-166): strike number i of
\* the ladder, with the draw u of random.uniform(-0.3, 0.3) in tenths.
\* base_gex is N / D thousandths.
EstimatedLevel(i, u, spot_price, interval, base_strike) ==
    LET strike == base_strike + i * interval
        d == Abs(strike - spot_price)
        N == Max(100 * spot_price, 2000 * spot_price - 30000 * d) * (10 + u)
        D == spot_price * 10
        big == RoundHalfEven(3 * N, 2 * D)
        small == RoundHalfEven(3 * N, 10 * D)
        net == RoundHalfEven(6 * N, 5 * D)
        side_type == IF N > 1000 * D
                     THEN (IF strike > spot_price THEN "call_wall"
                           ELSE "put_wall")
                     ELSE "neutral"
    IN  [strike |-> strike,
         net_gex |-> IF strike > spot_price THEN 10 * net ELSE 0 - 10 * net,
         call_gex |-> IF strike > spot_price THEN 10 * big ELSE 10 * small,
         put_gex |-> IF strike > spot_price THEN 0 - 10 * small
                     ELSE 0 - 10 * big,
         call_oi |-> (8 * N) \div D,
         put_oi |-> IF strike > spot_price THEN (9 * N) \div (5 * D)
                    ELSE (9 * N) \div D,
         level_type |-> IF 10 * d < 6 * interval THEN "gamma_flip"
                        ELSE side_type]

\* generate_estimated_gex (lines 128-168); draws[k] is the k-th draw of the
\* generator seeded with int(spot_price)
generate_estimated_gex(spot_price, underlying, draws) ==
    LET interval == IF underlying = "SPX" THEN 50 ELSE 5
        base_strike == RoundHalfEven(spot_price, interval) * interval
    IN  [k \in 1..21 |->
            EstimatedLevel(k - 11, draws[k], spot_price, interval, base_strike)]

\* the open interest of the contracts of a strike (lines 195, 214)
RECURSIVE SumOpenInterest(_)
SumOpenInterest(contracts) ==
    IF contracts = <<>> THEN 0
    ELSE Head(contracts).openInterest + SumOpenInterest(Tail(contracts))

\* the gamma of a strike after its contracts (lines 197-199, 216-218), in
\* ten-thousandths: 0.01 unless a contract carries a gamma
RECURSIVE LastGamma(_, _)
LastGamma(contracts, gamma) ==
    IF contracts = <<>> THEN gamma
    ELSE LastGamma(Tail(contracts),
                   IF Head(contracts).gamma # None /\ Head(contracts).gamma # 0
                   THEN Abs(Head(contracts).gamma) ELSE gamma)

\* the contracts of a strike of one map, over all its entries
RECURSIVE ContractsAt(_, _)
ContractsAt(exp_map, strike) ==
    IF exp_map = <<>> THEN <<>>
    ELSE (IF Head(exp_map).strike = strike THEN Head(exp_map).contracts
          ELSE <<>>) \o ContractsAt(Tail(exp_map), strike)

\* a set of numbers in ascending order
RECURSIVE Ascending(_)
Ascending(S) ==
    IF S = {} THEN <<>>
    ELSE LET least == CHOOSE x \in S : \A y \in S : x <= y
         IN  <<least>> \o Ascending(S \ {least})

\* calculate_gex_from_chain (lines 171-254); a map is the sequence of its
\* strikes with their contracts.  Gamma * OI * 100 * Spot^2 / 1e9, in
\* ten-thousandths, is gamma * oi * (spot^2 / 100) / 1e5 for a spot that is
\* a multiple of 10.
calculate_gex_from_chain(spot_price, call_exp_map, put_exp_map) ==
    LET strikes == Ascending({call_exp_map[i].strike :
                                  i \in 1..Len(call_exp_map)}
                             \cup {put_exp_map[i].strike :
                                       i \in 1..Len(put_exp_map)})
        spot2 == (spot_price * spot_price) \div 100
        Level(strike) ==
            LET calls == ContractsAt(call_exp_map, strike)
                puts == ContractsAt(put_exp_map, strike)
                call_raw == LastGamma(calls, 100) * SumOpenInterest(calls)
                                * spot2
                put_raw == 0 - LastGamma(puts, 100) * SumOpenInterest(puts)
                                   * spot2
            IN  [strike |-> strike,
                 net_gex |-> RoundHalfEven(call_raw + put_raw, 100000),
                 call_gex |-> RoundHalfEven(call_raw, 100000),
                 put_gex |-> RoundHalfEven(put_raw, 100000),
                 call_oi |-> SumOpenInterest(calls),
                 put_oi |-> SumOpenInterest(puts),
                 level_type |->
                     IF call_raw > 3000 * 100000 THEN "call_wall"
                     ELSE IF put_raw < 0 - 3000 * 100000 THEN "put_wall"
                     ELSE IF Abs(call_raw + put_raw) < 1000 * 100000
                          THEN "gamma_flip"
                     ELSE "neutral"]
    IN  [k \in 1..Len(strikes) |-> Level(strikes[k])]

RECURSIVE SumField(_, _)
SumField(levels, field) ==
    IF levels = <<>> THEN 0
    ELSE Head(levels)[field] + SumField(Tail(levels), field)

\* the GEX part of get_zero_dte_market_data (lines 373-399): the levels and
\* what is logged.  chain.failed is a chain request that raises.
GexLevelsOf(underlying, spy_price, spot_price, chain, draws) ==
    IF chain.failed
    THEN [gex_levels |-> generate_estimated_gex(spot_price, underlying, draws),
          log |-> <<"Option chain failed, using estimates">>]
    ELSE IF chain.callExpDateMap # <<>> /\ chain.putExpDateMap # <<>>
    THEN LET levels == calculate_gex_from_chain(spy_price,
                           chain.callExpDateMap, chain.putExpDateMap)
         IN  [gex_levels |->
                  IF underlying = "SPX"
                  THEN [k \in 1..Len(levels) |->
                           [levels[k] EXCEPT !.strike = @ * 10]]
                  ELSE levels,
              log |-> <<>>]
    ELSE [gex_levels |-> generate_estimated_gex(spot_price, underlying, draws),
          log |-> <<"No 0-DTE options, using estimates">>]

\* get_zero_dte_market_data (lines 299-430) once the SPY quote is there: the
\* ZeroDTEMarketData it returns.  The timestamp and the change fields are
\* left out.
MarketDataResponse(underlying, spy_price, vix_quote, vix1d_quote, gex_levels) ==
    LET spot_price == IF underlying = "SPX" THEN spy_price * 10
                      ELSE spy_price
        total_call_oi == SumField(gex_levels, "call_oi")
        total_put_oi == SumField(gex_levels, "put_oi")
    IN  [kind |-> "market_data",
         underlying |-> underlying,
         spot_price |-> spot_price,
         vix_data |-> get_vix_data(vix_quote, vix1d_quote),
         regime |-> determine_regime(SumField(gex_levels, "net_gex")),
         key_levels |-> find_key_levels(gex_levels, spot_price),
         gex_profile |->
             SelectSeq(gex_levels,
                 LAMBDA g : Abs(g.strike - spot_price) * 100 < 3 * spot_price),
         total_call_oi |-> total_call_oi,
         total_put_oi |-> total_put_oi,
         put_call_ratio |-> IF total_call_oi > 0
                            THEN RoundHalfEven(100 * total_put_oi,
                                               total_call_oi)
                            ELSE 100]

\* the SPY quotes (0 stands for a response without SPY), the option chains
\* and the draws of the generator
SpyPrices == {0, 580}
ChainStrikes == <<575, 580, 585>>
ChainMap(ois, gamma) ==
    [k \in 1..Len(ChainStrikes) |->
        [strike |-> ChainStrikes[k],
         contracts |-> <<[openInterest |-> ois[k], gamma |-> gamma]>>]]
OpenInterests == [1..Len(ChainStrikes) -> {0, 2000}]
FailedChain == [failed |-> TRUE, callExpDateMap |-> <<>>,
                putExpDateMap |-> <<>>]
Chains ==
    {FailedChain}
        \cup {[failed |-> FALSE, callExpDateMap |-> c, putExpDateMap |-> q] :
                 c \in {<<>>} \cup {ChainMap(ois, g) :
                                        ois \in OpenInterests, g \in {None, 200}},
                 q \in {<<>>} \cup {ChainMap(<<o, o, o>>, None) :
                                        o \in {0, 2000}}}
Draws == {[k \in 1..21 |-> u] : u \in {-3, 0, 3}}

----------------------------------------------------------------------------
(* models/position.py, models/cycle.py and the sessions of the two routers *)

\* rows ever inserted into each table, and requests served at a time
MaxPositions == 1
MaxCycles == 3
NumSessions == 2

PositionIds == 1..MaxPositions
CycleIds == 1..MaxCycles
Sessions == 1..NumSessions

\* a row of table positions (models/position.py 50): its status
PositionRow(status) == [status |-> status]

\* a row of table short_call_cycles (models/cycle.py 36-58): the position,
\* the cycle number and whether close_date is null; a deleted row keeps its
\* place, ids being never given twice
CycleRow(position_id, cycle_number) ==
    [position_id |-> position_id, cycle_number |-> cycle_number,
     open |-> TRUE, deleted |-> FALSE]

\* ShortCallCycle.is_open (models/cycle.py 83-86)
is_open(rows, c) == ~rows[c].deleted /\ rows[c].open

\* select ... where position_id == p
CyclesOf(rows, p) ==
    {c \in 1..Len(rows) : ~rows[c].deleted /\ rows[c].position_id = p}

\* select ... where position_id == p and close_date is null
OpenCyclesOf(rows, p) == {c \in CyclesOf(rows, p) : is_open(rows, c)}

\* a session between two requests, with the status code of its last reply
IdleSession(result) ==
    [pc |-> "idle", op |-> "none", position_id |-> 0, cycle_id |-> 0,
     number |-> 0, seen |-> {}, status |-> "none", result |-> result]

\* a session that has run its checks and is about to commit
Pending(op, position_id, cycle_id, number, seen, status) ==
    [pc |-> "commit", op |-> op, position_id |-> position_id,
     cycle_id |-> cycle_id, number |-> number, seen |-> seen,
     status |-> status, result |-> "none"]

\* the rows the sessions about to commit will insert
PendingInserts(ss) ==
    Cardinality({s \in Sessions : ss[s].pc = "commit"
                     /\ ss[s].op \in {"create_cycle", "roll_cycle"}})

\* the values update_position may write into the status field
StatusValues == {"active", "closed"}

----------------------------------------------------------------------------
(* services/schwab_service.py: the coroutines of _request *)

NumWorkers == 2
Workers == 1..NumWorkers
IdleWorker == [pc |-> "idle", now |-> 0, wake |-> 0]

----------------------------------------------------------------------------
(* State machine of the event service and the scanner router *)

NoResponse == [kind |-> "none"]

Init ==
    /\ today = 0
    /\ blackout_dates = BLACKOUT_DATES
    /\ response = NoResponse
    /\ aliased = FALSE
    /\ clock = 0
    /\ cache = <<>>
    /\ callers = [c \in Callers |-> IdleCaller]
    /\ minutes = 0
    /\ log = <<>>
    /\ positions = <<>>
    /\ cycles = <<>>
    /\ sessions = [s \in Sessions |-> IdleSession("none")]
    /\ wall = 0
    /\ simple_cache = <<>>
    /\ mono = 0
    /\ request_times = <<>>
    /\ sent = <<>>
    /\ workers = [w \in Workers |-> IdleWorker]

\* the calendar day changes, between two requests
Tick ==
    /\ response = NoResponse
    /\ today < MaxDay
    /\ today' = today + 1
    /\ UNCHANGED <<blackout_dates, response, aliased>>
    /\ UNCHANGED <<cacheVars, zeroDteVars, serviceVars>>

\* the client takes the response; the router is ready for the next request
Deliver ==
    /\ response # NoResponse
    /\ response' = NoResponse
    /\ UNCHANGED <<today, blackout_dates, aliased>>
    /\ UNCHANGED <<cacheVars, zeroDteVars, serviceVars>>

\* POST /events/blackout (scanner_router.py 609-613)
update_blackout_dates ==
    \E dates \in BlackoutLists :
        /\ response = NoResponse
        /\ blackout_dates' = ReplaceBlackoutDates(blackout_dates, dates)
        /\ response' = [kind |-> "blackout", status |-> "updated",
                        dates |-> dates]
        /\ aliased' = FALSE
        /\ UNCHANGED today
        /\ UNCHANGED <<cacheVars, zeroDteVars, serviceVars>>

\* GET /events/0dte (scanner_router.py 597-606)
get_0dte_events ==
    LET horizon == get_event_horizon(today, blackout_dates)
    IN  /\ response = NoResponse
        /\ response' = [kind |-> "events", horizon |-> horizon]
        /\ UNCHANGED <<today, blackout_dates, aliased>>
        /\ UNCHANGED <<cacheVars, zeroDteVars, serviceVars>>

\* POST /desk (scanner_router.py 384-461)
scan_0dte ==
    \E request \in DeskRequests, market_snapshot \in MarketSnapshots :
        /\ response = NoResponse
        /\ response' = Scan0DTEResponse(request,
               get_event_horizon(today, blackout_dates), market_snapshot)
        /\ UNCHANGED <<today, blackout_dates, aliased>>
        /\ UNCHANGED <<cacheVars, zeroDteVars, serviceVars>>

\* POST /strategy (scanner_router.py 464-560)
scan_strategy ==
    \E request \in StrategyRequests, market_snapshot \in MarketSnapshots,
       earnings_risk \in EarningsRisks :
        /\ response = NoResponse
        /\ response' = ScanStrategyResponse(request, market_snapshot,
                                            earnings_risk)
        /\ UNCHANGED <<today, blackout_dates, aliased>>
        /\ UNCHANGED <<cacheVars, zeroDteVars, serviceVars>>

Next ==
    \/ Tick
    \/ Deliver
    \/ update_blackout_dates
    \/ get_0dte_events
    \/ scan_0dte
    \/ scan_strategy

Spec == Init /\ [][Next]_vars

----------------------------------------------------------------------------
(* State machine of the event service, called by the router and in process *)

\* Event0DTEService.update_blackout_dates(dates) (lines 228-230), called in
\* process: the service stores the caller's list object, which the caller may
\* keep
Event0DTEService_update_blackout_dates ==
    \E dates \in AnyBlackoutLists, kept \in BOOLEAN :
        /\ response = NoResponse
        /\ blackout_dates' = ReplaceBlackoutDates(blackout_dates, dates)
        /\ aliased' = kept
        /\ response' = [kind |-> "replaced", dates |-> dates]
        /\ UNCHANGED today
        /\ UNCHANGED <<cacheVars, zeroDteVars, serviceVars>>

\* Event0DTEService.add_blackout_date (lines 213-219): appends in place
add_blackout_date ==
    \E item \in AnyBlackoutItems :
        /\ response = NoResponse
        /\ Len(blackout_dates) < MaxBlackout
        /\ blackout_dates' = Append(blackout_dates, item)
        /\ response' = [kind |-> "added", item |-> item]
        /\ UNCHANGED <<today, aliased>>
        /\ UNCHANGED <<cacheVars, zeroDteVars, serviceVars>>

\* Event0DTEService.remove_blackout_date (lines 221-226): builds a new list
remove_blackout_date ==
    \E date_str \in AnyBlackoutDays :
        /\ response = NoResponse
        /\ blackout_dates' = RemoveBlackoutDate(blackout_dates, date_str)
        /\ aliased' = FALSE
        /\ response' = [kind |-> "removed", date |-> date_str]
        /\ UNCHANGED today
        /\ UNCHANGED <<cacheVars, zeroDteVars, serviceVars>>

\* Event0DTEService.get_blackout_dates (lines 232-234): returns a copy
get_blackout_dates ==
    /\ response = NoResponse
    /\ response' = [kind |-> "dates", dates |-> blackout_dates]
    /\ UNCHANGED <<today, blackout_dates, aliased>>
    /\ UNCHANGED <<cacheVars, zeroDteVars, serviceVars>>

\* Event0DTEService.get_config (lines 236-244): returns the list itself
get_config ==
    /\ response = NoResponse
    /\ response' = [kind |-> "config", blackout_dates |-> blackout_dates,
                    block_threshold_days |-> BLOCK_THRESHOLD,
                    high_risk_threshold_days |-> HIGH_RISK_THRESHOLD,
                    caution_threshold_days |-> CAUTION_THRESHOLD]
    /\ aliased' = TRUE
    /\ UNCHANGED <<today, blackout_dates>>
    /\ UNCHANGED <<cacheVars, zeroDteVars, serviceVars>>

\* the caller appends to the list object it holds, which is the service's
CallerAppends ==
    \E item \in AnyBlackoutItems :
        /\ response = NoResponse
        /\ aliased
        /\ Len(blackout_dates) < MaxBlackout
        /\ blackout_dates' = Append(blackout_dates, item)
        /\ UNCHANGED <<today, response, aliased>>
        /\ UNCHANGED <<cacheVars, zeroDteVars, serviceVars>>

NextEvents ==
    \/ Tick
    \/ Deliver
    \/ update_blackout_dates
    \/ get_0dte_events
    \/ Event0DTEService_update_blackout_dates
    \/ add_blackout_date
    \/ remove_blackout_date
    \/ get_blackout_dates
    \/ get_config
    \/ CallerAppends

SpecEvents == Init /\ [][NextEvents]_vars

----------------------------------------------------------------------------
(* State machine of the /ipmcc-greeks endpoint *)

\* POST /ipmcc-greeks (analyze.py 109-143)
calculate_ipmcc_greeks ==
    \E request \in IPMCCGreeksRequests :
        /\ response = NoResponse
        /\ response' = IpmccGreeksResponse(request, today)
        /\ UNCHANGED <<today, blackout_dates, aliased>>
        /\ UNCHANGED <<cacheVars, zeroDteVars, serviceVars>>

NextGreeks ==
    \/ Tick
    \/ Deliver
    \/ calculate_ipmcc_greeks

SpecGreeks == Init /\ [][NextGreeks]_vars

----------------------------------------------------------------------------
(* State machine of the cached quotes endpoint: GET /schwab/quotes          *)
(* (schwab_router.py 105-133); the cached decorator (cache_service.py       *)
(* 243-276) runs the same three steps.  A coroutine runs without            *)
(* interruption between two awaits, so each await is one step.              *)

\* a request arrives and builds its cache key (lines 115-118)
StartRequest(c) ==
    \E k \in CacheKeys :
        /\ callers[c].pc = "idle"
        /\ callers' = [callers EXCEPT ![c] =
                          [pc |-> "get", key |-> k, data |-> NoValue,
                           source |-> "None"]]
        /\ UNCHANGED <<clock, cache>>
        /\ UNCHANGED <<routerVars, zeroDteVars, serviceVars>>

\* await cache_service.get(...) and the test of its result (lines 119-121)
CheckCache(c) ==
    LET got == CacheService_get(cache, callers[c].key, clock)
    IN  /\ callers[c].pc = "get"
        /\ cache' = got.entries
        /\ callers' = [callers EXCEPT ![c] =
              IF got.value # NoValue
              THEN [pc |-> "idle", key |-> callers[c].key,
                    data |-> got.value, source |-> "cache"]
              ELSE [pc |-> "fetch", key |-> callers[c].key,
                    data |-> NoValue, source |-> "None"]]
        /\ UNCHANGED clock
        /\ UNCHANGED <<routerVars, zeroDteVars, serviceVars>>

\* await schwab_service.get_quotes(...) returns (line 124)
FetchUpstream(c) ==
    /\ callers[c].pc = "fetch"
    /\ callers' = [callers EXCEPT ![c].pc = "set",
                                  ![c].data = [fetched_at |-> clock]]
    /\ UNCHANGED <<clock, cache>>
    /\ UNCHANGED <<routerVars, zeroDteVars, serviceVars>>

\* await schwab_service.get_quotes(...) raises (lines 130-133)
FetchFails(c) ==
    /\ callers[c].pc = "fetch"
    /\ callers' = [callers EXCEPT ![c].pc = "idle", ![c].source = "error"]
    /\ UNCHANGED <<clock, cache>>
    /\ UNCHANGED <<routerVars, zeroDteVars, serviceVars>>

\* await cache_service.set(...) and the return (lines 127-129)
StoreResult(c) ==
    /\ callers[c].pc = "set"
    /\ cache' = CacheService_set(cache, callers[c].key, callers[c].data,
                                 QUOTES_TTL, clock)
    /\ callers' = [callers EXCEPT ![c].pc = "idle", ![c].source = "schwab"]
    /\ UNCHANGED clock
    /\ UNCHANGED <<routerVars, zeroDteVars, serviceVars>>

\* time passes
AdvanceClock ==
    /\ clock + ClockStep <= MaxClock
    /\ clock' = clock + ClockStep
    /\ UNCHANGED <<cache, callers>>
    /\ UNCHANGED <<routerVars, zeroDteVars, serviceVars>>

NextCache ==
    \/ \E c \in Callers : StartRequest(c)
    \/ \E c \in Callers : CheckCache(c)
    \/ \E c \in Callers : FetchUpstream(c)
    \/ \E c \in Callers : FetchFails(c)
    \/ \E c \in Callers : StoreResult(c)
    \/ AdvanceClock

SpecCache == Init /\ [][NextCache]_vars

----------------------------------------------------------------------------
(* find_key_levels applied to GEX profiles *)

\* find_key_levels(gex_levels, spot_price) is called
KeyLevelsOfProfile ==
    /\ response = NoResponse
    /\ \E gex_levels \in GEXProfiles, spot_price \in SpotPrices :
           response' = [kind |-> "key_levels", gex_levels |-> gex_levels,
                        spot_price |-> spot_price,
                        key_levels |-> find_key_levels(gex_levels, spot_price)]
    /\ UNCHANGED <<today, blackout_dates, aliased>>
    /\ UNCHANGED <<cacheVars, zeroDteVars, serviceVars>>

\* find_key_levels is called with the example profile
KeyLevelsOfExample ==
    /\ response = NoResponse
    /\ \E gex_levels \in ExampleProfiles :
           response' = [kind |-> "key_levels", gex_levels |-> gex_levels,
                        spot_price |-> ExampleSpot,
                        key_levels |-> find_key_levels(gex_levels, ExampleSpot)]
    /\ UNCHANGED <<today, blackout_dates, aliased>>
    /\ UNCHANGED <<cacheVars, zeroDteVars, serviceVars>>

NextKeyLevels ==
    \/ KeyLevelsOfProfile
    \/ KeyLevelsOfExample
    \/ Deliver

SpecKeyLevels == Init /\ [][NextKeyLevels]_vars

----------------------------------------------------------------------------
(* State machine of the trading-window and kill-switch endpoints *)

\* the clock of the exchange moves to the next minute, between two requests
MinuteTick ==
    /\ response = NoResponse
    /\ minutes' = (minutes + 1) % 1440
    /\ UNCHANGED <<today, blackout_dates, response, aliased, log, serviceVars>>
    /\ UNCHANGED cacheVars

\* GET /trading-windows (zero_dte.py 490-531)
get_trading_windows ==
    /\ response = NoResponse
    /\ response' = [kind |-> "windows",
                    current_window |-> TradingWindows(minutes).current_window,
                    time_to_close |-> TradingWindows(minutes).time_to_close,
                    windows |-> windows,
                    market_open |-> TradingWindows(minutes).market_open]
    /\ UNCHANGED <<today, blackout_dates, aliased, minutes, log, serviceVars>>
    /\ UNCHANGED cacheVars

\* GET /kill-switch-status (zero_dte.py 534-584): get_vix_data returns the
\* data of the quotes, or raises and the default data is used
get_kill_switch_status ==
    /\ response = NoResponse
    /\ \E vix_data \in {DefaultVixData} \cup
                       {get_vix_data(v, v1) : v \in VixQuotes,
                                              v1 \in Vix1dQuotes} :
           response' = KillSwitchResponse(vix_data, minutes)
    /\ UNCHANGED <<today, blackout_dates, aliased, minutes, log, serviceVars>>
    /\ UNCHANGED cacheVars

NextKillSwitch ==
    \/ MinuteTick
    \/ Deliver
    \/ get_trading_windows
    \/ get_kill_switch_status

SpecKillSwitch == Init /\ [][NextKillSwitch]_vars

----------------------------------------------------------------------------
(* State machine of the market-data endpoint *)

\* GET /market-data/{underlying} (zero_dte.py 299-430)
get_zero_dte_market_data ==
    /\ response = NoResponse
    /\ \E underlying \in {"SPX", "SPY"}, spy_price \in SpyPrices,
          vix_quote \in VixQuotes, vix1d_quote \in Vix1dQuotes,
          chain \in Chains, draws \in Draws :
           IF spy_price = 0
           THEN /\ response' = [kind |-> "http_error", status_code |-> 404,
                                detail |-> "SPY quote not found"]
                /\ log' = <<>>
           ELSE LET spot_price == IF underlying = "SPX" THEN spy_price * 10
                                  ELSE spy_price
                    gex == GexLevelsOf(underlying, spy_price, spot_price,
                                       chain, draws)
                IN  /\ response' = MarketDataResponse(underlying, spy_price,
                                       vix_quote, vix1d_quote, gex.gex_levels)
                    /\ log' = gex.log
    /\ UNCHANGED <<today, blackout_dates, aliased, minutes, serviceVars>>
    /\ UNCHANGED cacheVars

NextMarketData ==
    \/ get_zero_dte_market_data
    \/ Deliver

SpecMarketData == Init /\ [][NextMarketData]_vars

----------------------------------------------------------------------------
(* determine_regime applied to total exposures *)

\* the totals determine_regime is called with, in ten-thousandths: a grid of
\* quarter units from -15 to 15, and the values next to the four cut points
TotalExposures ==
    {k * 2500 : k \in -60..60}
        \cup {c + e : c \in {-60000, -30000, 30000, 60000}, e \in {-1, 1}}

\* determine_regime(total_gex) is called
RegimeOfTotal ==
    /\ response = NoResponse
    /\ \E total_gex \in TotalExposures :
           response' = [kind |-> "regime", total |-> total_gex,
                        regime |-> determine_regime(total_gex)]
    /\ UNCHANGED <<today, blackout_dates, aliased>>
    /\ UNCHANGED <<cacheVars, zeroDteVars, serviceVars>>

NextRegime ==
    \/ RegimeOfTotal
    \/ Deliver

SpecRegime == Init /\ [][NextRegime]_vars

----------------------------------------------------------------------------
(* State machine of the Greeks engine called directly *)

\* the days_to_expiry the engine is called with: past, today and ahead
ExpiryDays == {-2, -1, 0, 3}

\* stock prices and strikes around the money, volatilities in percent
EnginePrices == {90, 100, 110}
EngineVolatilities == {25, 30}

\* greeks_engine.calculate_call_greeks(...) is called
CallGreeksOf ==
    /\ response = NoResponse
    /\ \E stock_price \in EnginePrices, strike \in EnginePrices,
          days_to_expiry \in ExpiryDays, volatility \in EngineVolatilities :
           response' = [kind |-> "call_greeks", stock_price |-> stock_price,
                        strike |-> strike, days_to_expiry |-> days_to_expiry,
                        result |-> calculate_call_greeks(stock_price, strike,
                                       days_to_expiry, volatility)]
    /\ UNCHANGED <<today, blackout_dates, aliased>>
    /\ UNCHANGED <<cacheVars, zeroDteVars, serviceVars>>

\* greeks_engine.calculate_put_greeks(...) is called
PutGreeksOf ==
    /\ response = NoResponse
    /\ \E stock_price \in EnginePrices, strike \in EnginePrices,
          days_to_expiry \in ExpiryDays, volatility \in EngineVolatilities :
           response' = [kind |-> "put_greeks", stock_price |-> stock_price,
                        strike |-> strike, days_to_expiry |-> days_to_expiry,
                        result |-> calculate_put_greeks(stock_price, strike,
                                       days_to_expiry, volatility)]
    /\ UNCHANGED <<today, blackout_dates, aliased>>
    /\ UNCHANGED <<cacheVars, zeroDteVars, serviceVars>>

\* greeks_engine.calculate_ipmcc_position(...) is called
IpmccPositionOf ==
    /\ response = NoResponse
    /\ \E long_strike \in {90}, short_strike \in {100, 110},
          long_dte \in ExpiryDays \cup {200}, short_dte \in ExpiryDays :
           response' = [kind |-> "position", long_dte |-> long_dte,
                        short_dte |-> short_dte,
                        result |-> calculate_ipmcc_position(100, long_strike,
                                       long_dte, 30, short_strike, short_dte,
                                       25, 1)]
    /\ UNCHANGED <<today, blackout_dates, aliased>>
    /\ UNCHANGED <<cacheVars, zeroDteVars, serviceVars>>

NextEngine ==
    \/ CallGreeksOf
    \/ PutGreeksOf
    \/ IpmccPositionOf
    \/ Deliver

SpecEngine == Init /\ [][NextEngine]_vars

----------------------------------------------------------------------------
(* greeks_engine.py: the implied volatility of an observed price *)

\* the return value None of an Optional[float], and a float read from
\* mibian.BS(...).impliedVolatility
NoVolatility == [is_none |-> TRUE]
SolvedVolatility(args) == [is_none |-> FALSE, impliedVolatility |-> args]

\* the observed price is outside the range of the pricing function, so that
\* no volatility reproduces it: a call is worth less than the stock, a put
\* less than its strike
Unreachable(stock_price, strike, option_price, option_type) ==
    IF option_type = "call" THEN option_price >= stock_price
    ELSE option_price >= strike

\* what mibian.BS(..., callPrice=p).impliedVolatility can do, the library
\* being outside the repository: find the volatility, raise, or end its
\* search and hand back the last volatility it tried
SolverOutcomes(stock_price, strike, option_price, option_type) ==
    IF Unreachable(stock_price, strike, option_price, option_type)
    THEN {"raises", "returns_last"}
    ELSE {"solved", "raises", "returns_last"}

\* GreeksEngine.implied_volatility_from_price (lines 253-293)
implied_volatility_from_price(stock_price, strike, days_to_expiry, option_price, option_type, outcome) ==
    IF days_to_expiry <= 0 \/ option_price <= 0
    THEN NoVolatility
    ELSE IF outcome = "raises"
    THEN NoVolatility
    ELSE SolvedVolatility(<<stock_price, strike, risk_free_rate,
                            days_to_expiry, option_price, option_type>>)

\* the option prices the solver is called with: none, small, and one above
\* every stock price and strike
ObservedPrices == {0, 5, 200}

\* greeks_engine.implied_volatility_from_price(...) is called
ImpliedVolatilityOf ==
    /\ response = NoResponse
    /\ \E stock_price \in EnginePrices, strike \in EnginePrices,
          days_to_expiry \in {0, 7}, option_price \in ObservedPrices,
          option_type \in {"call", "put"} :
         \E outcome \in SolverOutcomes(stock_price, strike, option_price,
                                       option_type) :
           response' = [kind |-> "implied_volatility",
                        stock_price |-> stock_price, strike |-> strike,
                        option_type |-> option_type,
                        days_to_expiry |-> days_to_expiry,
                        option_price |-> option_price,
                        outcome |-> outcome,
                        result |-> implied_volatility_from_price(
                                       stock_price, strike, days_to_expiry,
                                       option_price, option_type, outcome)]
    /\ UNCHANGED <<today, blackout_dates, aliased>>
    /\ UNCHANGED <<cacheVars, zeroDteVars, serviceVars>>

NextSolver ==
    \/ ImpliedVolatilityOf
    \/ Deliver

SpecSolver == Init /\ [][NextSolver]_vars

----------------------------------------------------------------------------
(* validation_engine.py and the /signals endpoint of analyze.py; money is *)
(* in cents per share                                                      *)

\* one entry of the signals list: its type and its priority (the message and
\* the action are texts no decision reads)
Signal(type, priority) == [type |-> type, priority |-> priority]

\* ValidationEngine.check_management_signals (lines 348-425).  The
\* percentages are compared after clearing the division:
\* total_pnl / long_entry_price * 100 < -30 is total_pnl * 100 < -30 * entry.
check_management_signals(long_value, long_entry_price, short_extrinsic_remaining, short_entry_extrinsic, long_dte, cumulative_short_pnl) ==
    LET leap_pnl == long_value - long_entry_price
        total_pnl == leap_pnl + cumulative_short_pnl
        \* total_pnl_pct is 0 when long_entry_price is not positive
        loss == long_entry_price > 0
                    /\ total_pnl * 100 < -30 * long_entry_price
        gain == long_entry_price > 0
                    /\ total_pnl * 100 > 50 * long_entry_price
        \* extrinsic_remaining_pct is 1.0 when short_entry_extrinsic is not
        \* positive
        below20 == short_entry_extrinsic > 0
                     /\ 5 * short_extrinsic_remaining < short_entry_extrinsic
        below10 == short_entry_extrinsic > 0
                     /\ 10 * short_extrinsic_remaining < short_entry_extrinsic
        s1 == IF loss THEN <<Signal("emergency_exit", "critical")>>
              ELSE <<>>
        s2 == IF below20 THEN <<Signal("roll_due", "high")>>
              ELSE IF below10 THEN <<Signal("assignment_risk", "critical")>>
              ELSE <<>>
        s3 == IF long_dte < 60 THEN <<Signal("leap_expiring", "high")>>
              ELSE IF long_dte < 90 THEN <<Signal("leap_expiring", "medium")>>
              ELSE <<>>
        s4 == IF gain THEN <<Signal("profit_target", "medium")>> ELSE <<>>
    IN  s1 \o s2 \o s3 \o s4

\* check_position_signals, GET /signals/{position_id} (analyze.py 240-276);
\* the response keeps the two extrinsic values of its request
SignalsResponse(long_value, long_entry_price, short_extrinsic_remaining, short_entry_extrinsic, long_dte, cumulative_short_pnl) ==
    LET signals == check_management_signals(long_value, long_entry_price,
                       short_extrinsic_remaining, short_entry_extrinsic,
                       long_dte, cumulative_short_pnl)
    IN  [kind |-> "signals",
         short_extrinsic_remaining |-> short_extrinsic_remaining,
         short_entry_extrinsic |-> short_entry_extrinsic,
         signals |-> signals,
         signal_count |-> Len(signals),
         has_critical |-> \E i \in 1..Len(signals) :
                              signals[i].priority = "critical",
         has_high |-> \E i \in 1..Len(signals) :
                          signals[i].priority = "high"]

\* query parameters of the endpoint, in cents: a LEAP bought at 10.00 (or
\* with no entry price), worth less, the same or more; a short call sold for
\* 1.00 of extrinsic (or none) with 0 to 50 cents left
SignalQueries ==
    [long_value : {600, 1000, 1600},
     long_entry_price : {0, 1000},
     short_extrinsic_remaining : {0, 5, 10, 15, 20, 50},
     short_entry_extrinsic : {0, 100},
     long_dte : {30, 60, 75, 90, 200},
     cumulative_short_pnl : {-100, 0}]

\* GET /signals/{position_id}
check_position_signals ==
    /\ response = NoResponse
    /\ \E q \in SignalQueries :
           response' = SignalsResponse(q.long_value, q.long_entry_price,
                           q.short_extrinsic_remaining,
                           q.short_entry_extrinsic, q.long_dte,
                           q.cumulative_short_pnl)
    /\ UNCHANGED <<today, blackout_dates, aliased>>
    /\ UNCHANGED <<cacheVars, zeroDteVars, serviceVars>>

NextSignals ==
    \/ check_position_signals
    \/ Deliver

SpecSignals == Init /\ [][NextSignals]_vars

----------------------------------------------------------------------------
(* State machine of the positions and cycles routers.  Each request runs  *)
(* in its own session; its selects are one step and its commit another,    *)
(* and other requests can run between the two.                             *)

\* create_position, POST /positions/ (positions.py 133-161)
create_position ==
    /\ Len(positions) < MaxPositions
    /\ positions' = Append(positions, PositionRow("active"))
    /\ UNCHANGED <<cycles, sessions>>
    /\ UNCHANGED <<routerVars, cacheVars, zeroDteVars>>
    /\ UNCHANGED <<simpleCacheVars, schwabVars>>

\* a request ends in its check step with an error status
Refuse(s, code) ==
    /\ sessions' = [sessions EXCEPT ![s] = IdleSession(code)]
    /\ UNCHANGED <<positions, cycles>>

\* a request passes its check step
Proceed(s, pending) ==
    /\ sessions' = [sessions EXCEPT ![s] = pending]
    /\ UNCHANGED <<positions, cycles>>

\* create_cycle up to its commit (cycles.py 92-137): the position is there
\* and active, it has no open cycle, the next number is the row count + 1
create_cycle_check(s, p) ==
    /\ sessions[s].pc = "idle"
    /\ Len(cycles) + PendingInserts(sessions) < MaxCycles
    /\ IF p > Len(positions) THEN Refuse(s, "404")
       ELSE IF positions[p].status # "active" THEN Refuse(s, "400")
       ELSE IF Cardinality(OpenCyclesOf(cycles, p)) > 1
       THEN Refuse(s, "500")
       ELSE IF OpenCyclesOf(cycles, p) # {} THEN Refuse(s, "400")
       ELSE Proceed(s, Pending("create_cycle", p, 0,
                               Cardinality(CyclesOf(cycles, p)) + 1, {},
                               "none"))
    /\ UNCHANGED <<routerVars, cacheVars, zeroDteVars>>
    /\ UNCHANGED <<simpleCacheVars, schwabVars>>

\* db.add(db_cycle); await db.commit() of create_cycle (cycles.py 139-153)
create_cycle_commit(s) ==
    /\ sessions[s].pc = "commit" /\ sessions[s].op = "create_cycle"
    /\ cycles' = Append(cycles, CycleRow(sessions[s].position_id,
                                         sessions[s].number))
    /\ sessions' = [sessions EXCEPT ![s] = IdleSession("201")]
    /\ UNCHANGED positions
    /\ UNCHANGED <<routerVars, cacheVars, zeroDteVars>>
    /\ UNCHANGED <<simpleCacheVars, schwabVars>>

\* close_cycle up to its commit (cycles.py 200-214)
close_cycle_check(s, c) ==
    /\ sessions[s].pc = "idle"
    /\ IF c > Len(cycles) \/ cycles[c].deleted THEN Refuse(s, "404")
       ELSE IF ~cycles[c].open THEN Refuse(s, "400")
       ELSE Proceed(s, Pending("close_cycle", cycles[c].position_id, c, 0,
                               {}, "none"))
    /\ UNCHANGED <<routerVars, cacheVars, zeroDteVars>>
    /\ UNCHANGED <<simpleCacheVars, schwabVars>>

\* the UPDATE and commit of close_cycle (cycles.py 221-232); the UPDATE of
\* a row deleted in the meantime matches no row and the commit fails
close_cycle_commit(s) ==
    LET c == sessions[s].cycle_id
    IN  /\ sessions[s].pc = "commit" /\ sessions[s].op = "close_cycle"
        /\ IF cycles[c].deleted
           THEN /\ sessions' = [sessions EXCEPT ![s] = IdleSession("500")]
                /\ UNCHANGED cycles
           ELSE /\ cycles' = [cycles EXCEPT ![c].open = FALSE]
                /\ sessions' = [sessions EXCEPT ![s] = IdleSession("200")]
        /\ UNCHANGED positions
        /\ UNCHANGED <<routerVars, cacheVars, zeroDteVars>>
        /\ UNCHANGED <<simpleCacheVars, schwabVars>>

\* roll_cycle up to its commit (cycles.py 238-276): the cycle is there and
\* open and its position is active
roll_cycle_check(s, c) ==
    /\ sessions[s].pc = "idle"
    /\ Len(cycles) + PendingInserts(sessions) < MaxCycles
    /\ IF c > Len(cycles) \/ cycles[c].deleted THEN Refuse(s, "404")
       ELSE IF ~cycles[c].open THEN Refuse(s, "400")
       ELSE IF positions[cycles[c].position_id].status # "active"
       THEN Refuse(s, "400")
       ELSE Proceed(s, Pending("roll_cycle", cycles[c].position_id, c,
                               cycles[c].cycle_number + 1, {}, "none"))
    /\ UNCHANGED <<routerVars, cacheVars, zeroDteVars>>
    /\ UNCHANGED <<simpleCacheVars, schwabVars>>

\* the UPDATE, the INSERT and the commit of roll_cycle (cycles.py 269-296)
roll_cycle_commit(s) ==
    LET c == sessions[s].cycle_id
    IN  /\ sessions[s].pc = "commit" /\ sessions[s].op = "roll_cycle"
        /\ IF cycles[c].deleted
           THEN /\ sessions' = [sessions EXCEPT ![s] = IdleSession("500")]
                /\ UNCHANGED cycles
           ELSE /\ cycles' = Append([cycles EXCEPT ![c].open = FALSE],
                                    CycleRow(sessions[s].position_id,
                                             sessions[s].number))
                /\ sessions' = [sessions EXCEPT ![s] = IdleSession("200")]
        /\ UNCHANGED positions
        /\ UNCHANGED <<routerVars, cacheVars, zeroDteVars>>
        /\ UNCHANGED <<simpleCacheVars, schwabVars>>

\* delete_cycle up to its commit (cycles.py 314-325)
delete_cycle_check(s, c) ==
    /\ sessions[s].pc = "idle"
    /\ IF c > Len(cycles) \/ cycles[c].deleted THEN Refuse(s, "404")
       ELSE Proceed(s, Pending("delete_cycle", cycles[c].position_id, c, 0,
                               {}, "none"))
    /\ UNCHANGED <<routerVars, cacheVars, zeroDteVars>>
    /\ UNCHANGED <<simpleCacheVars, schwabVars>>

\* await db.delete(cycle); await db.commit() (cycles.py 327-331)
delete_cycle_commit(s) ==
    /\ sessions[s].pc = "commit" /\ sessions[s].op = "delete_cycle"
    /\ cycles' = [cycles EXCEPT ![sessions[s].cycle_id].deleted = TRUE]
    /\ sessions' = [sessions EXCEPT ![s] = IdleSession("200")]
    /\ UNCHANGED positions
    /\ UNCHANGED <<routerVars, cacheVars, zeroDteVars>>
    /\ UNCHANGED <<simpleCacheVars, schwabVars>>

\* close_position up to its commit (positions.py 286-312): the position is
\* there and active; its cycles are loaded with it and the open ones are
\* marked to be closed
close_position_check(s, p) ==
    /\ sessions[s].pc = "idle"
    /\ IF p > Len(positions) THEN Refuse(s, "404")
       ELSE IF positions[p].status # "active" THEN Refuse(s, "400")
       ELSE Proceed(s, Pending("close_position", p, 0, 0,
                               OpenCyclesOf(cycles, p), "closed"))
    /\ UNCHANGED <<routerVars, cacheVars, zeroDteVars>>
    /\ UNCHANGED <<simpleCacheVars, schwabVars>>

\* the commit of close_position (positions.py 314-315): the cycles that were
\* loaded as open are closed and the position is closed
close_position_commit(s) ==
    LET p == sessions[s].position_id
        seen == sessions[s].seen
    IN  /\ sessions[s].pc = "commit" /\ sessions[s].op = "close_position"
        /\ IF \E c \in seen : cycles[c].deleted
           THEN /\ sessions' = [sessions EXCEPT ![s] = IdleSession("500")]
                /\ UNCHANGED <<positions, cycles>>
           ELSE /\ cycles' = [c \in 1..Len(cycles) |->
                                 IF c \in seen
                                 THEN [cycles[c] EXCEPT !.open = FALSE]
                                 ELSE cycles[c]]
                /\ positions' = [positions EXCEPT ![p].status = "closed"]
                /\ sessions' = [sessions EXCEPT ![s] = IdleSession("200")]
        /\ UNCHANGED <<routerVars, cacheVars, zeroDteVars>>
        /\ UNCHANGED <<simpleCacheVars, schwabVars>>

\* update_position with a status in its body, up to its commit
\* (positions.py 226-247)
update_position_check(s, p, status) ==
    /\ sessions[s].pc = "idle"
    /\ IF p > Len(positions) THEN Refuse(s, "404")
       ELSE Proceed(s, Pending("update_position", p, 0, 0, {}, status))
    /\ UNCHANGED <<routerVars, cacheVars, zeroDteVars>>
    /\ UNCHANGED <<simpleCacheVars, schwabVars>>

\* the commit of update_position (positions.py 249-250)
update_position_commit(s) ==
    /\ sessions[s].pc = "commit" /\ sessions[s].op = "update_position"
    /\ positions' = [positions EXCEPT
                        ![sessions[s].position_id].status = sessions[s].status]
    /\ sessions' = [sessions EXCEPT ![s] = IdleSession("200")]
    /\ UNCHANGED cycles
    /\ UNCHANGED <<routerVars, cacheVars, zeroDteVars>>
    /\ UNCHANGED <<simpleCacheVars, schwabVars>>

NextCycles ==
    \/ create_position
    \/ \E s \in Sessions, p \in PositionIds : create_cycle_check(s, p)
    \/ \E s \in Sessions : create_cycle_commit(s)
    \/ \E s \in Sessions, c \in CycleIds : close_cycle_check(s, c)
    \/ \E s \in Sessions : close_cycle_commit(s)
    \/ \E s \in Sessions, c \in CycleIds : roll_cycle_check(s, c)
    \/ \E s \in Sessions : roll_cycle_commit(s)
    \/ \E s \in Sessions, c \in CycleIds : delete_cycle_check(s, c)
    \/ \E s \in Sessions : delete_cycle_commit(s)
    \/ \E s \in Sessions, p \in PositionIds : close_position_check(s, p)
    \/ \E s \in Sessions : close_position_commit(s)
    \/ \E s \in Sessions, p \in PositionIds, status \in StatusValues :
           update_position_check(s, p, status)
    \/ \E s \in Sessions : update_position_commit(s)

SpecCycles == Init /\ [][NextCycles]_vars

----------------------------------------------------------------------------
(* services/market_data_service.py: the simple in-memory cache *)

\* seconds of a day; the model follows datetime.now() for MaxWallDays days
\* and, on each day, for the first MaxWallSeconds seconds
DaySeconds == 86400
MaxWallDays == 1
MaxWallSeconds == 120

\* timedelta.seconds of the difference of two datetimes, later - earlier:
\* the seconds within the day, the whole days being in timedelta.days
TimedeltaSeconds(later, earlier) == (later - earlier) % DaySeconds

\* the keys and the ttl of the cached decorators (lines 179, 210, 230)
SimpleKeys == {"quote", "vix"}
SimpleTtl(key) == IF key = "quote" THEN 30 ELSE 60

\* CacheService.get (market_data_service.py 26-32): the value, or None,
\* and the cache it leaves
SimpleGet(c, key, now) ==
    IF key \in DOMAIN c
    THEN IF TimedeltaSeconds(now, c[key].timestamp) < c[key].ttl
         THEN [value |-> c[key].value, cache |-> c]
         ELSE [value |-> None,
               cache |-> [k \in DOMAIN c \ {key} |-> c[k]]]
    ELSE [value |-> None, cache |-> c]

\* CacheService.set (market_data_service.py 34-39)
SimpleSet(c, key, value, now, ttl) ==
    [k \in DOMAIN c \cup {key} |->
        IF k = key THEN [value |-> value, timestamp |-> now, ttl |-> ttl]
        ELSE c[k]]

\* cache_service.set(cache_key, result, ttl) of the decorator (line 66);
\* the value stored is the time of the fetch
simple_set ==
    /\ \E key \in SimpleKeys :
           simple_cache' = SimpleSet(simple_cache, key, wall, wall,
                                     SimpleTtl(key))
    /\ UNCHANGED wall
    /\ UNCHANGED <<routerVars, cacheVars, zeroDteVars, dbVars, schwabVars>>

\* cache_service.get(cache_key) of the decorator (line 57)
simple_get ==
    /\ response = NoResponse
    /\ \E key \in SimpleKeys :
           LET got == SimpleGet(simple_cache, key, wall)
           IN  /\ response' = [kind |-> "simple_get", key |-> key,
                               value |-> got.value, at |-> wall,
                               ttl |-> SimpleTtl(key),
                               removed |-> key \notin DOMAIN got.cache]
               /\ simple_cache' = got.cache
    /\ UNCHANGED <<today, blackout_dates, aliased, wall>>
    /\ UNCHANGED <<cacheVars, zeroDteVars, dbVars, schwabVars>>

\* time passes: 40 seconds, or a day
AdvanceWall ==
    /\ \E d \in {40, DaySeconds} :
           /\ (wall + d) \div DaySeconds <= MaxWallDays
           /\ (wall + d) % DaySeconds <= MaxWallSeconds
           /\ wall' = wall + d
    /\ UNCHANGED simple_cache
    /\ UNCHANGED <<routerVars, cacheVars, zeroDteVars, dbVars, schwabVars>>

NextSimpleCache ==
    \/ simple_set
    \/ simple_get
    \/ AdvanceWall
    \/ Deliver

SpecSimpleCache == Init /\ [][NextSimpleCache]_vars

----------------------------------------------------------------------------
(* services/schwab_service.py: the rate limit of _request.  Times are in   *)
(* tenths of a second.                                                      *)

\* SchwabService._rate_limit is 120 requests; the model runs the same code
\* with a limit of RateLimit requests and stops after MaxSent requests have
\* gone out
RateLimit == 2
MaxSent == 5

\* the instants of time.time() at which something happens: the start, a
\* moment within the first minute, and the two instants at which a sleep
\* begun in the first minute can end (0 + 60.1 s and 35 + 60.1 s)
MonoInstants == {0, 350, 601, 951}

\* the window of the limit: 60 seconds
Minute == 600

\* SelectSeq with the test t > minute_ago (line 208)
After(times, minute_ago) ==
    LET Recent(t) == t > minute_ago IN SelectSeq(times, Recent)

\* sleep_time of _rate_limit_wait (line 211)
SleepTime(times, minute_ago) == times[1] - minute_ago + 1

\* the requests that are inside _request and have not gone out yet
Waiting(ws) == Cardinality({w \in Workers : ws[w].pc = "sleeping"})

\* _request is called (lines 224-237): _rate_limit_wait prunes the list and
\* either goes to sleep or records the request, which then goes out
EnterRequest(w) ==
    LET now == mono
        minute_ago == now - Minute
        recent == After(request_times, minute_ago)
    IN  /\ workers[w].pc = "idle"
        /\ Len(sent) + Waiting(workers) < MaxSent
        /\ IF Len(recent) >= RateLimit
           THEN /\ request_times' = recent
                /\ workers' = [workers EXCEPT ![w] =
                      [pc |-> "sleeping", now |-> now,
                       wake |-> now + SleepTime(recent, minute_ago)]]
                /\ UNCHANGED sent
           ELSE /\ request_times' = Append(recent, now)
                /\ sent' = Append(sent, mono)
                /\ workers' = [workers EXCEPT ![w] =
                      [pc |-> "awaiting", now |-> now, wake |-> 0]]
        /\ UNCHANGED mono
        /\ UNCHANGED <<routerVars, cacheVars, zeroDteVars>>
        /\ UNCHANGED <<dbVars, simpleCacheVars>>

\* asyncio.sleep(sleep_time) is over (lines 213-215): the time read before
\* the sleep is recorded and the request goes out
WakeUp(w) ==
    /\ workers[w].pc = "sleeping"
    /\ mono >= workers[w].wake
    /\ request_times' = Append(request_times, workers[w].now)
    /\ sent' = Append(sent, mono)
    /\ workers' = [workers EXCEPT ![w].pc = "awaiting"]
    /\ UNCHANGED mono
    /\ UNCHANGED <<routerVars, cacheVars, zeroDteVars>>
    /\ UNCHANGED <<dbVars, simpleCacheVars>>

\* the API answers 200 (lines 255-258)
Answer(w) ==
    /\ workers[w].pc \in {"awaiting", "retried"}
    /\ workers' = [workers EXCEPT ![w] = IdleWorker]
    /\ UNCHANGED <<mono, request_times, sent>>
    /\ UNCHANGED <<routerVars, cacheVars, zeroDteVars>>
    /\ UNCHANGED <<dbVars, simpleCacheVars>>

\* the API answers 401: the token is refreshed and the request is sent
\* again (lines 243-253)
Unauthorized(w) ==
    /\ workers[w].pc = "awaiting"
    /\ Len(sent) + Waiting(workers) < MaxSent
    /\ sent' = Append(sent, mono)
    /\ workers' = [workers EXCEPT ![w].pc = "retried"]
    /\ UNCHANGED <<mono, request_times>>
    /\ UNCHANGED <<routerVars, cacheVars, zeroDteVars>>
    /\ UNCHANGED <<dbVars, simpleCacheVars>>

\* time passes to the next instant; a coroutine whose sleep has ended runs
\* before time passes again
AdvanceMono ==
    /\ \A w \in Workers :
           workers[w].pc = "sleeping" => mono < workers[w].wake
    /\ \E t \in MonoInstants :
           /\ t > mono
           /\ \A u \in MonoInstants : u > mono => t <= u
           /\ mono' = t
    /\ UNCHANGED <<request_times, sent, workers>>
    /\ UNCHANGED <<routerVars, cacheVars, zeroDteVars>>
    /\ UNCHANGED <<dbVars, simpleCacheVars>>

NextSchwab ==
    \/ \E w \in Workers : EnterRequest(w)
    \/ \E w \in Workers : WakeUp(w)
    \/ \E w \in Workers : Answer(w)
    \/ \E w \in Workers : Unauthorized(w)
    \/ AdvanceMono

SpecSchwab == Init /\ [][NextSchwab]_vars

----------------------------------------------------------------------------
(* analyze_desk_signal applied to requests of a selling day *)

\* ScanRequest fields of requests with selling or buying flow: prices from
\* one dollar up, volume_delta in tenths on both sides of -1.5 and 0.5
TrendRequests ==
    [current_price : {1, 100, 5000},
     zero_gamma : {0},
     net_gex : {-10, -4, -3},
     volume_delta : {-100, -20, -16, -15, 6, 20},
     net_delta : {"bullish", "bearish"},
     vanna_flow : {"neutral"},
     charm_effect : {"unpinning"},
     dark_pool : {"none", "mixed"},
     vix_change : {0}]

\* analyze_desk_signal(data) is called
DeskSignalOf ==
    /\ response = NoResponse
    /\ \E data \in TrendRequests :
           response' = [kind |-> "desk_signal", data |-> data,
                        result |-> analyze_desk_signal(data)]
    /\ UNCHANGED <<today, blackout_dates, aliased>>
    /\ UNCHANGED <<cacheVars, zeroDteVars, serviceVars>>

NextDesk ==
    \/ DeskSignalOf
    \/ Deliver

SpecDesk == Init /\ [][NextDesk]_vars

----------------------------------------------------------------------------
(* Claims about the event horizon and the scanner router, under Spec *)

IsDesk == response.kind = "desk"
IsStrategy == response.kind = "strategy"
IsEvents == response.kind = "events"

\* restrictiveness of a 0-DTE status and of a strategy signal
DeskRank(status) ==
    CASE status = "green_light" -> 0
      [] status = "caution" -> 1
      [] status = "no_trade" -> 2

SignalRank(signal) ==
    CASE signal = "strong_buy" -> 0
      [] signal = "buy" -> 1
      [] signal = "neutral" -> 2
      [] signal = "avoid" -> 3
      [] signal = "strong_avoid" -> 4

RECURSIVE SumSeq(_)
SumSeq(q) == IF q = <<>> THEN 0 ELSE Head(q) + SumSeq(Tail(q))

\* C1: whenever the event horizon of a 0-DTE scan reports has_binary_event,
\* the returned status is no_trade, whatever the technical status, the
\* technical confidence and the macro adjustment.
C1_BinaryEventForcesNoTrade ==
    (IsDesk /\ response.macro.has_binary_event) => response.status = "no_trade"

\* C1 witness: a green-light technical signal of the highest confidence the
\* analysis produces (75) is blocked by a binary event.
C1_Witness ==
    /\ IsDesk
    /\ response.macro.has_binary_event
    /\ response.technical.status = "green_light"
    /\ response.technical.confidence = 75
    /\ response.status = "no_trade"

\* C2 (as claimed): has_binary_event is true if and only if some event of the
\* result is at most BLOCK_THRESHOLD (2) days away with impact high; an event
\* 3 to 5 days away never sets it by itself.
C2_BinaryOnlyInBlockWindow ==
    IsEvents =>
        (response.horizon.has_binary_event <=>
            \E i \in 1..Len(response.horizon.events) :
                /\ response.horizon.events[i].days_away <= BLOCK_THRESHOLD
                /\ response.horizon.events[i].impact = "high")

\* C4 (as claimed): whenever the event horizon holds a blocking binary event,
\* a strategy scan returns strong_avoid and reports has_binary_event = true.
\* (The day and the blackout list do not change while a response is pending,
\* so the horizon of the state is the horizon of the scan.)
C4_StrategyBlockedByBinaryEvent ==
    (IsStrategy /\ get_event_horizon(today, blackout_dates).has_binary_event)
        => (response.signal = "strong_avoid"
            /\ response.macro.has_binary_event)

\* C6: final_confidence of scan_0dte and of scan_strategy lies in [0, 100]
\* and is the technical confidence plus the macro adjustment, clamped to
\* [0, 100].
C6_FinalConfidenceClamped ==
    (IsDesk \/ IsStrategy) =>
        LET x == response.technical.confidence
                     + response.macro.macro_adjustment
        IN  /\ response.final_confidence \in 0..100
            /\ response.final_confidence =
                   (IF x < 0 THEN 0 ELSE IF x > 100 THEN 100 ELSE x)

\* C6 witness: a 0-DTE scan whose adjusted confidence falls below 0 and is
\* returned as 0.
C6_Witness ==
    /\ IsDesk
    /\ response.technical.confidence + response.macro.macro_adjustment < 0
    /\ response.final_confidence = 0

\* C7 (as claimed): with no binary event, both scans use the cut points 30
\* and 50: below 30 the most restrictive status; from 30 to below 50 a
\* positive technical status is downgraded by exactly one tier; at 50 or
\* above the technical status is returned unchanged.
C7_SameCutPoints ==
    /\ (IsDesk /\ ~response.macro.has_binary_event) =>
          /\ response.final_confidence < 30 => response.status = "no_trade"
          /\ (response.final_confidence \in 30..49
                  /\ response.technical.status = "green_light")
                 => response.status = "caution"
          /\ response.final_confidence >= 50
                 => response.status = response.technical.status
    /\ (IsStrategy /\ ~response.macro.has_binary_event) =>
          /\ response.final_confidence < 30
                 => response.signal = "strong_avoid"
          /\ (response.final_confidence \in 30..49
                  /\ response.technical.signal \in {"strong_buy", "buy"})
                 => SignalRank(response.signal)
                        = SignalRank(response.technical.signal) + 1
          /\ response.final_confidence >= 50
                 => response.signal = response.technical.signal

\* C8: the composer only downgrades.  The final status (signal) is never
\* less restrictive than the technical one, and with the technical status
\* and the event block fixed, no lower confidence gives a less restrictive
\* result than the one returned, and no higher confidence a more restrictive
\* one.
C8_OnlyDowngrades ==
    /\ IsDesk =>
          /\ DeskRank(response.status) >= DeskRank(response.technical.status)
          /\ \A c \in 0..100 :
                LET other == DeskFinalStatus(response.technical.status,
                                             response.macro_override, c)
                IN  /\ c <= response.final_confidence
                        => DeskRank(other) >= DeskRank(response.status)
                    /\ c >= response.final_confidence
                        => DeskRank(other) <= DeskRank(response.status)
    /\ IsStrategy =>
          /\ SignalRank(response.signal)
                 >= SignalRank(response.technical.signal)
          /\ \A c \in 0..100 :
                LET other == StrategyFinalSignal(response.technical.signal, c)
                IN  /\ c <= response.final_confidence
                        => SignalRank(other) >= SignalRank(response.signal)
                    /\ c >= response.final_confidence
                        => SignalRank(other) <= SignalRank(response.signal)

\* C8 witness: a strategy scan whose positive technical signal was
\* downgraded by more than one tier.
C8_Witness ==
    /\ IsStrategy
    /\ response.technical.signal = "strong_buy"
    /\ response.signal = "neutral"

\* the penalty the decision hierarchy assigns to an event by its window:
\* 50 in the block window, then the medium and the small penalty of its kind
WindowPenalty(e) ==
    IF e.days_away <= BLOCK_THRESHOLD THEN 50
    ELSE IF e.days_away <= HIGH_RISK_THRESHOLD
         THEN (IF e.event_type = "fomc" THEN 25 ELSE 20)
    ELSE (IF e.event_type = "fomc" THEN 10 ELSE 5)

\* C9 (as claimed): each event of the horizon contributes the penalty of the
\* window it falls in, every event in the block window (at most 2 days away)
\* the largest one, 50; the adjustment is their sum, capped at -50.
C9_PenaltyByWindow ==
    IsEvents =>
        response.horizon.macro_adjustment =
            Max(-50, 0 - SumSeq([i \in 1..Len(response.horizon.events) |->
                                   WindowPenalty(response.horizon.events[i])]))

\* the penalty that goes with a warning of the result
WarningPenalty(w) ==
    CASE w.text = "NO 0-DTE TRADES" -> 50
      [] w.text = "HIGH RISK" -> 25
      [] w.text = "approaching in" -> 10
      [] w.text = "in days" -> 20
      [] w.text = "approaching" -> 5

\* C10: the macro_adjustment of get_event_horizon lies in [-50, 0] and is
\* max(-50, sum of the per-event penalties); with an FOMC meeting 1 day away
\* it is exactly -50.
C10_AdjustmentCapped ==
    IsEvents =>
        LET h == response.horizon
        IN  /\ h.macro_adjustment \in (-50)..0
            /\ h.macro_adjustment =
                   Max(-50, 0 - SumSeq([i \in 1..Len(h.warnings) |->
                                          WarningPenalty(h.warnings[i])]))
            /\ (\E i \in 1..Len(h.events) :
                    /\ h.events[i].event_type = "fomc"
                    /\ h.events[i].days_away = 1)
                   => h.macro_adjustment = -50

\* C10 witness: an FOMC meeting 1 day away together with a second blocking
\* event; the penalties sum to -100 and -50 is returned.
C10_Witness ==
    /\ IsEvents
    /\ \E i \in 1..Len(response.horizon.events) :
            /\ response.horizon.events[i].event_type = "fomc"
            /\ response.horizon.events[i].days_away = 1
    /\ SumSeq([i \in 1..Len(response.horizon.warnings) |->
                  WarningPenalty(response.horizon.warnings[i])]) >= 100
    /\ response.horizon.macro_adjustment = -50

----------------------------------------------------------------------------
(* Claims about the position modeler, under SpecGreeks *)

\* C3 (as claimed): the position modeler fails with a structural-validation
\* error, and returns no net Greeks or yield metrics, whenever
\* longStrike >= shortStrike or longDTE <= shortDTE.
C3_StructuralValidation ==
    LET request == response.request
        long_dte == calculate_days_to_expiry(request.long_expiration, today)
        short_dte == calculate_days_to_expiry(request.short_expiration, today)
    IN  (response.kind \in {"ipmcc", "http_error"}
            /\ (request.long_strike >= request.short_strike
                    \/ long_dte <= short_dte))
        => response.kind = "http_error"

----------------------------------------------------------------------------
(* Claims about the cache, under SpecCache *)

\* a caller between its cache miss and its write of the fetched value
InFlight(c) == callers[c].pc \in {"fetch", "set"}

\* C5 (as claimed): when several callers request the same missing key, the
\* upstream fetch runs at most once: no caller checks the cache between the
\* check and the write of another, so no two callers are at the same time
\* between a miss and the write for one key.
C5_SingleFetchPerKey ==
    \A c1, c2 \in Callers :
        (c1 # c2 /\ InFlight(c1) /\ InFlight(c2))
            => callers[c1].key # callers[c2].key

----------------------------------------------------------------------------
(* Claims about the event service, under SpecEvents *)

\* C11: whenever the result of get_event_horizon holds an event 0 days away
\* with impact high, has_binary_event is true and event_override is not
\* None; and in every result event_override is not None exactly when
\* has_binary_event is true.
C11_TodayEventBlocks ==
    IsEvents =>
        LET h == response.horizon
        IN  /\ (\E i \in 1..Len(h.events) :
                    h.events[i].days_away = 0 /\ h.events[i].impact = "high")
                => (h.has_binary_event /\ ~h.event_override.none)
            /\ ~h.event_override.none <=> h.has_binary_event

\* C11 witness: a result with a high-impact event of today, blocked.
C11_Witness ==
    /\ IsEvents
    /\ \E i \in 1..Len(response.horizon.events) :
            /\ response.horizon.events[i].days_away = 0
            /\ response.horizon.events[i].impact = "high"
    /\ response.horizon.has_binary_event
    /\ ~response.horizon.event_override.none

\* a date string that parses and lies in the lookahead window of today
InLookahead(d) == d # BadDate /\ 0 <= d - today /\ d - today <= 10

\* C12: the event list holds exactly the FOMC and blackout entries with a
\* parseable date and 0 <= days_away <= 10, one event for each, and is in
\* ascending days_away order.
C12_EventsInWindowSorted ==
    IsEvents =>
        LET events == response.horizon.events
            fomc == {i \in 1..Len(FOMC_DATES) : InLookahead(FOMC_DATES[i])}
            black == {i \in 1..Len(blackout_dates) :
                          InLookahead(blackout_dates[i].date)}
        IN  /\ Len(events) = Cardinality(fomc) + Cardinality(black)
            /\ \A i \in fomc : \E k \in 1..Len(events) :
                   /\ events[k].event_type = "fomc"
                   /\ events[k].date = FOMC_DATES[i]
            /\ \A i \in black : \E k \in 1..Len(events) :
                   /\ events[k].event_type = "blackout"
                   /\ events[k].date = blackout_dates[i].date
            /\ \A k \in 1..Len(events) :
                   /\ InLookahead(events[k].date)
                   /\ events[k].days_away = events[k].date - today
                   /\ events[k].days_away \in 0..10
            /\ \A j, k \in 1..Len(events) :
                   j < k => events[j].days_away <= events[k].days_away

\* C12 witness: a list with a malformed date and an FOMC meeting beyond the
\* window; the one blackout event of the result, appended after the FOMC
\* meeting, is sorted before it.
C12_Witness ==
    /\ IsEvents
    /\ \E i \in 1..Len(blackout_dates) : blackout_dates[i].date = BadDate
    /\ \E i \in 1..Len(FOMC_DATES) : FOMC_DATES[i] - today > 10
    /\ Len(response.horizon.events) = 2
    /\ response.horizon.events[1].event_type = "blackout"
    /\ response.horizon.events[2].event_type = "fomc"
    /\ response.horizon.events[1].days_away
           < response.horizon.events[2].days_away

\* C13: after update_blackout_dates(D) the stored list, which
\* get_blackout_dates copies, is exactly D, and every blackout event of the
\* event horizon read from it comes from an entry of D: nothing of the list
\* stored before survives.
C13_FullReplace ==
    (response.kind \in {"blackout", "replaced"}) =>
        /\ blackout_dates = response.dates
        /\ LET events == get_event_horizon(today, blackout_dates).events
           IN  \A k \in 1..Len(events) :
                   events[k].event_type = "blackout" =>
                       \E i \in 1..Len(response.dates) :
                           /\ response.dates[i].date = events[k].date
                           /\ response.dates[i].event
                                  = events[k].description.name

\* C13 witness: the three initial entries are replaced by a one-entry list
\* whose event is in the horizon.
C13_Witness ==
    /\ response.kind \in {"blackout", "replaced"}
    /\ Len(response.dates) = 1
    /\ blackout_dates = response.dates
    /\ \E k \in 1..Len(get_event_horizon(today, blackout_dates).events) :
           get_event_horizon(today, blackout_dates).events[k].event_type
               = "blackout"

\* C14 (as claimed): the stored blackout list changes only in a replace
\* operation.
C14_OnlyReplaceChanges ==
    [][blackout_dates' # blackout_dates
           => response'.kind \in {"blackout", "replaced"}]_vars

----------------------------------------------------------------------------
(* Claims about the key levels, under SpecKeyLevels *)

IsKeyLevels == response.kind = "key_levels"

\* C16: for every GEX profile and every spot, call_wall > spot and
\* put_wall < spot, also when a side has no strike or the profile is empty.
C16_WallsAroundSpot ==
    IsKeyLevels =>
        /\ response.key_levels.call_wall > response.spot_price
        /\ response.key_levels.put_wall < response.spot_price

\* C16 witness: a profile with a strike at spot that carries the largest
\* call exposure, and strikes on both sides of it.
C16_Witness ==
    /\ IsKeyLevels
    /\ \E i \in 1..Len(response.gex_levels) :
           /\ response.gex_levels[i].strike = response.spot_price
           /\ response.gex_levels[i].call_gex = 5000
           /\ response.gex_levels[i].put_gex = -5000
    /\ \E i \in 1..Len(response.gex_levels) :
           /\ response.gex_levels[i].strike = response.key_levels.call_wall
           /\ response.gex_levels[i].call_gex = 0
    /\ \E i \in 1..Len(response.gex_levels) :
           response.gex_levels[i].strike = response.key_levels.put_wall

\* the strike the tie rule selects among the levels with the best score
\* (scores[i] is the score of levels[i]): the closest to spot, and of two
\* equally close ones the lower
TieRuleStrike(levels, spot_price, scores) ==
    LET best == {i \in 1..Len(levels) :
                     \A j \in 1..Len(levels) : scores[j] <= scores[i]}
        near == {i \in best :
                     \A j \in best :
                         Abs(levels[i].strike - spot_price)
                             <= Abs(levels[j].strike - spot_price)}
    IN  levels[CHOOSE i \in near :
                   \A j \in near : levels[i].strike <= levels[j].strike].strike

\* C17 (as claimed): call_wall is the strike above spot with maximal call
\* exposure, put_wall the strike below spot with the most negative put
\* exposure, max_pain the strike with maximal combined open interest; ties
\* go to the strike closest to spot, then to the lower strike.
C17_TieByProximity ==
    IsKeyLevels =>
        LET levels == response.gex_levels
            spot == response.spot_price
            above == SelectSeq(levels, LAMBDA g : g.strike > spot)
            below == SelectSeq(levels, LAMBDA g : g.strike < spot)
        IN  /\ above # <<>> =>
                   response.key_levels.call_wall
                       = TieRuleStrike(above, spot,
                             [i \in 1..Len(above) |-> above[i].call_gex])
            /\ below # <<>> =>
                   response.key_levels.put_wall
                       = TieRuleStrike(below, spot,
                             [i \in 1..Len(below) |-> 0 - below[i].put_gex])
            /\ levels # <<>> =>
                   response.key_levels.max_pain
                       = TieRuleStrike(levels, spot,
                             [i \in 1..Len(levels) |->
                                  levels[i].call_oi + levels[i].put_oi])

IsExample ==
    /\ IsKeyLevels
    /\ response.gex_levels \in ExampleProfiles
    /\ response.spot_price = ExampleSpot

----------------------------------------------------------------------------
(* Claims about the kill switch and the trading windows, under               *)
(* SpecKillSwitch                                                            *)

IsKillSwitch == response.kind = "kill_switch"

ThreatRank(threat) ==
    CASE threat = "normal" -> 0
      [] threat = "elevated" -> 1
      [] threat = "critical" -> 2

SeverityRank(severity) ==
    CASE severity = "warning" -> 1
      [] severity = "critical" -> 2

\* C19: the threat level is the maximum severity over the alerts of the
\* triggered rules; it is critical exactly when a critical rule fired (VIX1D
\* change above 10, lethal window, extreme VIX regime), elevated exactly
\* when none of them but a warning rule fired (VIX1D change above 5, danger
\* window, backwardation), normal exactly when no rule fired; and
\* kill_switch_recommended is true exactly when the level is critical.
C19_ThreatIsMaxSeverity ==
    IsKillSwitch =>
        LET v1d == response.vix_data.vix1d_change
            window == CurrentWindow(minutes)
            crit == \/ (v1d # None /\ v1d > 1000)
                    \/ window.type = "lethal"
                    \/ response.vix_data.regime = "extreme"
            warn == \/ (v1d # None /\ v1d > 500)
                    \/ window.type = "danger"
                    \/ response.vix_data.term_structure = "backwardation"
            alerts == response.alerts
        IN  /\ response.threat_level = "critical" <=> crit
            /\ response.threat_level = "elevated" <=> (~crit /\ warn)
            /\ response.threat_level = "normal" <=> (~crit /\ ~warn)
            /\ \A i \in 1..Len(alerts) :
                   SeverityRank(alerts[i].severity)
                       <= ThreatRank(response.threat_level)
            /\ response.threat_level # "normal" =>
                   \E i \in 1..Len(alerts) :
                       SeverityRank(alerts[i].severity)
                           = ThreatRank(response.threat_level)
            /\ response.kill_switch_recommended
                   <=> response.threat_level = "critical"

\* C19 witness: a VIX1D spike in the danger window with backwardation: the
\* two warning rules run after the critical one and the level stays
\* critical.
C19_Witness ==
    /\ IsKillSwitch
    /\ response.threat_level = "critical"
    /\ Len(response.alerts) = 3
    /\ response.alerts[1].severity = "critical"
    /\ response.alerts[2].type = "time"
    /\ response.alerts[2].severity = "warning"
    /\ response.alerts[3].severity = "warning"
    /\ response.kill_switch_recommended

\* the windows that hold a minute
WindowsAt(m) ==
    {i \in 1..Len(windows) : windows[i].start <= m /\ m < windows[i].end}

\* the place of the current window in the order prep, avoid, optimal, manage,
\* caution, danger, lethal; 0 outside every window
WindowOrder(m) ==
    LET type == CurrentWindow(m).type
    IN  CASE type = "None" -> 0
          [] type = "prep" -> 1
          [] type = "avoid" -> 2
          [] type = "optimal" -> 3
          [] type = "manage" -> 4
          [] type = "caution" -> 5
          [] type = "danger" -> 6
          [] type = "lethal" -> 7

\* C20: the windows partition [480, 960): a minute in it lies in exactly
\* one window, a minute outside it in none, each window ends where the next
\* starts; and as the clock advances the current window stays, or moves to
\* the next type of the order prep, ..., lethal, entering at prep and
\* leaving after lethal.
C20_WindowsPartitionDay ==
    /\ [](/\ Cardinality(WindowsAt(minutes))
                = (IF 480 <= minutes /\ minutes < 960 THEN 1 ELSE 0)
          /\ \A i \in 1..(Len(windows) - 1) :
                 windows[i].end = windows[i + 1].start
          /\ response.kind = "windows" =>
                 response.current_window = CurrentWindow(minutes))
    /\ [][minutes' # minutes =>
             \/ WindowOrder(minutes') = WindowOrder(minutes)
             \/ WindowOrder(minutes') = WindowOrder(minutes) + 1
             \/ (WindowOrder(minutes) = 7 /\ WindowOrder(minutes') = 0)]_vars

\* C20 witness: the first minute of the last window, served as lethal.
C20_Witness ==
    /\ response.kind = "windows"
    /\ minutes = 950
    /\ response.current_window.type = "lethal"
    /\ response.market_open

----------------------------------------------------------------------------
(* Claims about the market data, under SpecMarketData *)

IsMarketData == response.kind = "market_data"

\* the request served last fell back to the synthetic GEX ladder
UsedEstimates ==
    \E k \in 1..Len(log) :
        log[k] \in {"Option chain failed, using estimates",
                    "No 0-DTE options, using estimates"}

\* C15 (as claimed): a response built from the synthetic GEX ladder carries
\* a data-source tag that marks its levels as estimated, and a response
\* built from the chain one that marks them as live.
C15_EstimatesAreTagged ==
    IsMarketData =>
        /\ "data_source" \in DOMAIN response
        /\ response.data_source
               = (IF UsedEstimates THEN "estimated" ELSE "live")

----------------------------------------------------------------------------
(* Claims about determine_regime, under SpecRegime *)

IsRegime == response.kind = "regime"

\* C21: a total above 3 is positive_gamma with pin bias, strong above 6 and
\* moderate otherwise; a total below -3 is negative_gamma with trend bias,
\* strong below -6 and moderate otherwise; every other total, exactly 3 and
\* exactly -3 included, is neutral with chop bias and weak strength.
C21_RegimeByTotal ==
    IsRegime =>
        LET t == response.total
            r == response.regime
        IN  /\ t > 30000 =>
                /\ r.regime_type = "positive_gamma" /\ r.bias = "pin"
                /\ r.strength = (IF t > 60000 THEN "strong" ELSE "moderate")
            /\ t < -30000 =>
                /\ r.regime_type = "negative_gamma" /\ r.bias = "trend"
                /\ r.strength = (IF t < -60000 THEN "strong" ELSE "moderate")
            /\ (-30000 <= t /\ t <= 30000) =>
                /\ r.regime_type = "neutral" /\ r.bias = "chop"
                /\ r.strength = "weak"

\* C21 witness: a total of exactly 3 was classified, as neutral.
C21_Witness ==
    /\ IsRegime
    /\ response.total = 30000
    /\ response.regime.regime_type = "neutral"

----------------------------------------------------------------------------
(* Claims about the Greeks engine, under SpecEngine *)

\* the result of a single option with days_to_expiry <= 0
IsExpiredOption ==
    /\ response.kind \in {"call_greeks", "put_greeks"}
    /\ response.days_to_expiry <= 0

\* delta of an option at or after expiry: 100 for a call in the money,
\* -100 for a put in the money, 0 otherwise
ExpiredDelta ==
    IF response.kind = "call_greeks"
    THEN (IF response.stock_price > response.strike THEN 100 ELSE 0)
    ELSE (IF response.stock_price < response.strike THEN -100 ELSE 0)

\* C22 (as claimed): for every days_to_expiry <= 0, negative values
\* included, a single option is priced at its intrinsic value with no
\* extrinsic, zero gamma, theta and vega, delta by moneyness, and no error;
\* and a position is not rejected because a leg has days_to_expiry <= 0.
C22_ExpiredIsNotAnError ==
    /\ IsExpiredOption =>
           LET r == response.result
           IN  /\ r.price = r.intrinsic
               /\ r.extrinsic = Num(0)
               /\ r.gamma = Num(0) /\ r.theta = Num(0) /\ r.vega = Num(0)
               /\ r.delta = Num(ExpiredDelta)
               /\ r.error = "None"
    /\ (/\ response.kind = "position"
        /\ response.long_dte <= 0 \/ response.short_dte <= 0)
           => response.result.error = <<"None">>

----------------------------------------------------------------------------
(* Claims about the implied-volatility solver, under SpecSolver *)

\* the call was made with valid inputs and the search found no volatility
IsSolverFailure ==
    /\ response.kind = "implied_volatility"
    /\ response.days_to_expiry > 0 /\ response.option_price > 0
    /\ response.outcome # "solved"

\* C23 (as claimed): a solver failure is reported as an error, and its
\* return value is never the one of the invalid-input outcome
\* (days_to_expiry <= 0 or option_price <= 0), which is None.
C23_SolverFailureIsDistinct ==
    IsSolverFailure =>
        /\ response.result # NoVolatility
        /\ "impliedVolatility" \notin DOMAIN response.result

----------------------------------------------------------------------------
(* Claims about the management signals, under SpecSignals *)

\* C24 (as claimed): whenever the remaining short extrinsic is below 10% of
\* the entry extrinsic, the signals contain an assignment_risk signal of
\* priority critical and has_critical is true.
C24_AssignmentRiskBelowTenPercent ==
    (/\ response.kind = "signals"
     /\ response.short_entry_extrinsic > 0
     /\ 10 * response.short_extrinsic_remaining
            < response.short_entry_extrinsic)
        => /\ \E i \in 1..Len(response.signals) :
                  response.signals[i]
                      = Signal("assignment_risk", "critical")
           /\ response.has_critical

----------------------------------------------------------------------------
(* Claims about positions and cycles, under SpecCycles *)

\* C25 (as claimed): whatever the order and the interleaving of the
\* requests, every position has at most one open cycle.
C25_AtMostOneOpenCycle ==
    \A p \in 1..Len(positions) : Cardinality(OpenCyclesOf(cycles, p)) <= 1

\* the rows that cycles' has and cycles has not
InsertedCycles == (Len(cycles) + 1)..Len(cycles')

\* C26 (as claimed): within one position no two cycles have the same
\* number, and a cycle that is inserted gets a number greater than that of
\* every cycle its position has at that moment.
C26_CycleNumbersIncrease ==
    /\ [](\A c, d \in 1..Len(cycles) :
              (/\ c # d
               /\ ~cycles[c].deleted /\ ~cycles[d].deleted
               /\ cycles[c].position_id = cycles[d].position_id)
                  => cycles[c].cycle_number # cycles[d].cycle_number)
    /\ [][\A n \in InsertedCycles :
              \A c \in CyclesOf(cycles, cycles'[n].position_id) :
                  cycles'[n].cycle_number > cycles[c].cycle_number]_vars

\* C27 (as claimed): in every reachable state a position whose status is
\* not active has no open cycle.
C27_InactiveHasNoOpenCycle ==
    \A p \in 1..Len(positions) :
        positions[p].status # "active" => OpenCyclesOf(cycles, p) = {}

----------------------------------------------------------------------------
(* Claims about the simple cache, under SpecSimpleCache *)

\* C28 (as claimed): a get never returns a value once more than its TTL has
\* elapsed since the value was stored, a day or more included; the expired
\* entry is removed and the get is a miss.  The value of an entry is the
\* time at which it was stored.
C28_NoValueAfterTtl ==
    (/\ response.kind = "simple_get"
     /\ response.value # None)
        => response.at - response.value <= response.ttl

----------------------------------------------------------------------------
(* Claims about the Schwab client, under SpecSchwab *)

\* the requests that went out in the 60 seconds that begin at time t
SentInWindow(t) ==
    Cardinality({i \in 1..Len(sent) : t <= sent[i] /\ sent[i] < t + Minute})

\* C29 (as claimed): in no window of 60 seconds do more requests go out
\* than the rate limit allows, concurrent requests, requests that slept in
\* _rate_limit_wait and requests sent again after a 401 included.
C29_AtMostLimitPerMinute ==
    \A i \in 1..Len(sent) : SentInWindow(sent[i]) <= RateLimit

----------------------------------------------------------------------------
(* Claims about the bearish side of analyze_desk_signal, under SpecDesk *)

\* a request of the claim: a price, dealers short gamma, strong selling
\* flow (volume_delta in tenths) and a bearish net delta
IsBearishTrendRequest(data) ==
    /\ data.current_price > 0
    /\ data.net_gex < -3
    /\ data.volume_delta < -15
    /\ data.net_delta = "bearish"

\* the answer that recommends the bearish trend-day trade
IsBearishTrendTrade(result) ==
    /\ result.regime = "trend_day"
    /\ result.status # "no_trade"
    /\ result.direction = "bearish"
    /\ result.structure = "Bear Put Vertical"

\* C30 (as claimed): analyze_desk_signal can recommend a bearish trend-day
\* trade: whenever it is ready for a request, some request with
\* current_price > 0, net_gex < -3, volume_delta < -1.5 and a bearish
\* net_delta would be answered with regime trend_day, a status other than
\* no_trade and the bearish direction with its Bear Put Vertical.
C30_BearishTrendTradeExists ==
    response = NoResponse =>
        \E data \in TrendRequests :
            /\ IsBearishTrendRequest(data)
            /\ IsBearishTrendTrade(analyze_desk_signal(data))

\* every request of the claim that was answered got no_trade for a high
\* fakeout risk
BearishTrendIsRefused ==
    (response.kind = "desk_signal" /\ IsBearishTrendRequest(response.data))
        => /\ response.result.regime = "trend_day"
           /\ response.result.fakeout_risk = "high"
           /\ response.result.status = "no_trade"
           /\ response.result.direction = "none"

\* a request of the claim was answered
BearishTrendAnswered ==
    response.kind = "desk_signal" /\ IsBearishTrendRequest(response.data)

====
